---- MODULE Spec2Model ----
(***************************************************************************)
(* PKGBUILD parser of pkgmanager (src/rust/src/core/pkgbuild.rs).          *)
(*                                                                         *)
(* A manifest is a string; the five regular expressions of                 *)
(* PkgbuildParser::new are written out as matchers over that string with   *)
(* the leftmost-first semantics of the regex crate, and one parse call is  *)
(* a state machine with one action per pass of PkgbuildParser::parse.      *)
(*                                                                         *)
(* Further parts: parse calls sharing one PkgbuildParser, the helper       *)
(* functions of PkgbuildInfo, PackageBuilder and ArtifactCollector,        *)
(* ProcessRunner::run_commands_sequence, ArtifactCollector::collect over a *)
(* file system, VersionGenerator::generate followed by load_from_file,     *)
(* and PackageBuilder::install_package_list and build.  Each part has its  *)
(* own variables and its own specification; the variables of the other     *)
(* parts stay idle.                                                        *)
(***************************************************************************)
EXTENDS Integers, Sequences, FiniteSets, TLC

VARIABLES
    path,       \* the path handed to parse
    readable,   \* whether std::fs::read_to_string succeeds on path
    disk,       \* the text of the file at path
    content,    \* parse's local `content`
    info,       \* parse's local `info` record
    pc,         \* position of the call inside parse
    result,     \* what parse returned
    passes,     \* the passes the call has run so far, in order
    ioLog,      \* every operation of the call that reaches outside the record
    parser,     \* the shared PkgbuildParser: its compiled rules
    calls,      \* the parse calls made on the shared parser, in order of entry
    call,       \* a call of a helper function: the function and its arguments
    ret,        \* what the helper function returned
    commands,   \* the list handed to run_commands_sequence
    started,    \* the commands run_commands_sequence has started, in order
    results,    \* run_commands_sequence's local `results`
    seqResult,  \* what run_commands_sequence returned
    config,     \* the ArtifactConfig of the ArtifactCollector
    fsys,       \* the files on disk: the content of each path, or NoFile
    fsys0,      \* the files on disk when collect was called
    cpc,        \* position of the call inside collect
    patIdx,     \* index of the pattern the loop of collect is at
    files,      \* collect_pattern's `files` still to be collected
    artifacts,  \* collect_pattern's local `artifacts`
    collected,  \* collect's local `collected`
    found_packages, \* collect's local `found_packages`
    cur,        \* collect_file's locals: source, destination, operation
    collectResult,  \* what collect returned
    environ,    \* the environment: CI_COMMIT_TAG, CI_JOB_ID and the clock
    versionFile,    \* the version file on disk
    generated,  \* what generate returned
    loaded,     \* what load_from_file returned
    vpc,        \* position of the version command after its parse call
    bconfig,    \* the PackageBuilder's package_manager and build configuration
    request,    \* the PkgbuildInfo handed to install_dependencies or build
    packages,   \* the list handed to install_package_list
    effects,    \* the commands run and the file searches made, in order
    cwd,        \* the names of the files in the working directory
    bpc,        \* position inside install_dependencies or build
    bResult     \* what install_dependencies or build returned

parseVars == <<path, readable, disk, content, info, pc, result, passes, ioLog>>

sharedVars == <<parser, calls>>

helperVars == <<call, ret>>

sequenceVars == <<commands, started, results, seqResult>>

collectVars ==
    <<config, fsys, fsys0, cpc, patIdx, files, artifacts, collected,
      found_packages, cur, collectResult>>

versionVars == <<environ, versionFile, generated, loaded, vpc>>

builderVars == <<bconfig, request, packages, effects, cwd, bpc, bResult>>

workflowVars == <<collectVars, versionVars, builderVars>>

vars == <<parseVars, sharedVars, helperVars, sequenceVars, workflowVars>>

----------------------------------------------------------------------------
(* Characters and character classes.                                       *)

Ch(s, i) == IF i >= 1 /\ i <= Len(s) THEN SubSeq(s, i, i) ELSE ""

\* U+000B, written as the character itself
VerticalTab == ""

\* char::is_whitespace and the class \s of the regex crate (White_Space).
\* A string of the model holds ASCII characters, and these are the ASCII
\* members of the class: tab, line feed, vertical tab, form feed, carriage
\* return and space.  Its other members (U+0085, U+00A0, U+1680,
\* U+2000..U+200A, U+2028, U+2029, U+202F, U+205F, U+3000) do not occur in
\* the texts of the model.
Whitespace == {"\t", "\n", VerticalTab, "\f", "\r", " "}

Lower == {"a","b","c","d","e","f","g","h","i","j","k","l","m",
          "n","o","p","q","r","s","t","u","v","w","x","y","z"}
Upper == {"A","B","C","D","E","F","G","H","I","J","K","L","M",
          "N","O","P","Q","R","S","T","U","V","W","X","Y","Z"}
Digit == {"0","1","2","3","4","5","6","7","8","9"}

IdStart == Lower \cup Upper \cup {"_"}
IdChar  == IdStart \cup Digit

Quotes == {"'", "\""}

RECURSIVE SkipIn(_, _, _)
SkipIn(s, i, class) ==
    IF i <= Len(s) /\ Ch(s, i) \in class THEN SkipIn(s, i + 1, class) ELSE i

RECURSIVE SkipNotIn(_, _, _)
SkipNotIn(s, i, class) ==
    IF i <= Len(s) /\ Ch(s, i) \notin class THEN SkipNotIn(s, i + 1, class) ELSE i

\* (?m)^ : at the start of the text or right after a newline
AtLineStart(s, i) == i = 1 \/ Ch(s, i - 1) = "\n"

\* .* : the position of the end of the line that holds position i
LineEnd(s, i) == SkipNotIn(s, i, {"\n"})

RECURSIVE LastNewline(_, _, _)
LastNewline(s, lo, hi) ==
    IF hi < lo THEN 0
    ELSE IF Ch(s, hi) = "\n" THEN hi
    ELSE LastNewline(s, lo, hi - 1)

----------------------------------------------------------------------------
(* str::trim, str::trim_matches                                            *)

RECURSIVE TrimStartOf(_, _)
TrimStartOf(s, class) ==
    IF Len(s) > 0 /\ Ch(s, 1) \in class THEN TrimStartOf(Tail(s), class) ELSE s

RECURSIVE TrimEndOf(_, _)
TrimEndOf(s, class) ==
    IF Len(s) > 0 /\ Ch(s, Len(s)) \in class
    THEN TrimEndOf(SubSeq(s, 1, Len(s) - 1), class)
    ELSE s

trim(s) == TrimEndOf(TrimStartOf(s, Whitespace), Whitespace)

trim_matches(s, class) == TrimEndOf(TrimStartOf(s, class), class)

----------------------------------------------------------------------------
(* The pattern set of PkgbuildParser::new.  A match is a record            *)
(* [ok, key, val, end]: the two capture groups and the position right      *)
(* after the match.                                                        *)

NoMatch == [ok |-> FALSE, key |-> "", val |-> "", end |-> 0]

\* ^\s*([a-zA-Z_][a-zA-Z0-9_]*)\s*=   (leading \s* only when lead is TRUE)
AssignHead(s, p, lead) ==
    LET k0 == IF lead THEN SkipIn(s, p, Whitespace) ELSE p
        k1 == SkipIn(s, k0, IdChar)
        e  == SkipIn(s, k1, Whitespace)
    IN  IF AtLineStart(s, p) /\ Ch(s, k0) \in IdStart /\ Ch(s, e) = "="
        THEN [ok |-> TRUE, key |-> SubSeq(s, k0, k1 - 1), after |-> e + 1]
        ELSE [ok |-> FALSE, key |-> "", after |-> 0]

\* \s*(?:#.*)?$ from position j: the end of the match, 0 when there is none.
\* The greedy \s* gives back whitespace down to the last newline it took.
TailEnd(s, j) ==
    LET r == SkipIn(s, j, Whitespace)
    IN  IF Ch(s, r) = "#" THEN LineEnd(s, r)
        ELSE IF r > Len(s) THEN r
        ELSE LastNewline(s, j, r - 1)

\* "([^"\n#]*?)"\s*(?:#.*)?$  and  '([^'\n#]*?)'\s*(?:#.*)?$
MatchQuoted(s, p, q) ==
    LET h == AssignHead(s, p, TRUE)
        v == SkipIn(s, h.after, Whitespace)
        c == SkipNotIn(s, v + 1, {q, "\n", "#"})
        t == TailEnd(s, c + 1)
    IN  IF h.ok /\ Ch(s, v) = q /\ Ch(s, c) = q /\ t # 0
        THEN [ok |-> TRUE, key |-> h.key, val |-> SubSeq(s, v + 1, c - 1), end |-> t]
        ELSE NoMatch

re_double_quoted(s, p) == MatchQuoted(s, p, "\"")

re_single_quoted(s, p) == MatchQuoted(s, p, "'")

\* ([^'"\n#]+?)\s*(?:#.*)?$ with the value starting at v: the lazy value
\* ends at the first position w from which the tail matches.
RECURSIVE UnquotedEnd(_, _)
UnquotedEnd(s, w) ==
    IF TailEnd(s, w) # 0 THEN w
    ELSE IF w <= Len(s) /\ Ch(s, w) \notin (Quotes \cup {"\n", "#"})
         THEN UnquotedEnd(s, w + 1)
         ELSE 0

UnquotedFrom(s, v) ==
    IF v <= Len(s) /\ Ch(s, v) \notin (Quotes \cup {"\n", "#"})
    THEN UnquotedEnd(s, v + 1)
    ELSE 0

\* the greedy \s* after "=" gives back whitespace until a value fits
RECURSIVE UnquotedStart(_, _, _)
UnquotedStart(s, lo, v) ==
    IF v < lo THEN 0
    ELSE IF UnquotedFrom(s, v) # 0 THEN v
    ELSE UnquotedStart(s, lo, v - 1)

re_unquoted(s, p) ==
    LET h == AssignHead(s, p, TRUE)
        v == UnquotedStart(s, h.after, SkipIn(s, h.after, Whitespace))
        w == UnquotedFrom(s, v)
    IN  IF h.ok /\ v # 0
        THEN [ok |-> TRUE, key |-> h.key, val |-> SubSeq(s, v, w - 1),
              end |-> TailEnd(s, w)]
        ELSE NoMatch

\* (?ms)^\s*KEY\s*=\s*\(\s*(.*?)\s*\) : the body runs to the first ")"
re_array(s, p) ==
    LET h == AssignHead(s, p, TRUE)
        o == SkipIn(s, h.after, Whitespace)
        b == SkipIn(s, o + 1, Whitespace)
        c == SkipNotIn(s, b, {")"})
    IN  IF h.ok /\ Ch(s, o) = "(" /\ c <= Len(s)
        THEN [ok |-> TRUE, key |-> h.key,
              val |-> TrimEndOf(SubSeq(s, b, c - 1), Whitespace), end |-> c + 1]
        ELSE NoMatch

\* (?m)^KEY\s*=\s*(.*)$
re_simple(s, p) ==
    LET h == AssignHead(s, p, FALSE)
        v == SkipIn(s, h.after, Whitespace)
        e == LineEnd(s, v)
    IN  IF h.ok
        THEN [ok |-> TRUE, key |-> h.key, val |-> SubSeq(s, v, e - 1), end |-> e]
        ELSE NoMatch

MatchAt(rule, s, p) ==
    CASE rule = "re_double_quoted" -> re_double_quoted(s, p)
      [] rule = "re_single_quoted" -> re_single_quoted(s, p)
      [] rule = "re_unquoted"      -> re_unquoted(s, p)
      [] rule = "re_array"         -> re_array(s, p)
      [] rule = "re_simple"        -> re_simple(s, p)

\* Regex::captures_iter: the leftmost match at or after p, then on from its end.
\* Every rule starts with ^, so a match can only start at the start of a line.
RECURSIVE captures_iter(_, _, _)
captures_iter(rule, s, p) ==
    IF p > Len(s) THEN <<>>
    ELSE LET m == MatchAt(rule, s, p)
         IN  IF m.ok THEN <<m>> \o captures_iter(rule, s, m.end)
             ELSE captures_iter(rule, s, LineEnd(s, p) + 1)

\* re_comment.replace_all(s, "") with re_comment = (?m)#.*$
RECURSIVE RemoveComments(_)
RemoveComments(s) ==
    LET h == SkipNotIn(s, 1, {"#"})
        e == LineEnd(s, h)
    IN  IF h > Len(s) THEN s
        ELSE SubSeq(s, 1, h - 1) \o RemoveComments(SubSeq(s, e, Len(s)))

----------------------------------------------------------------------------
(* clean_array_content                                                     *)

RECURSIVE ReplaceChars(_, _, _)
ReplaceChars(s, class, by) ==
    IF Len(s) = 0 THEN ""
    ELSE (IF Ch(s, 1) \in class THEN by ELSE Ch(s, 1))
         \o ReplaceChars(Tail(s), class, by)

\* str::replace("  ", " "): non-overlapping pairs, left to right, one sweep
RECURSIVE ReplaceDoubleSpace(_)
ReplaceDoubleSpace(s) ==
    IF Len(s) = 0 THEN ""
    ELSE IF Len(s) >= 2 /\ SubSeq(s, 1, 2) = "  "
         THEN " " \o ReplaceDoubleSpace(SubSeq(s, 3, Len(s)))
         ELSE Ch(s, 1) \o ReplaceDoubleSpace(Tail(s))

RECURSIVE split_whitespace(_)
split_whitespace(s) ==
    LET b == SkipIn(s, 1, Whitespace)
        e == SkipNotIn(s, b, Whitespace)
    IN  IF b > Len(s) THEN <<>>
        ELSE <<SubSeq(s, b, e - 1)>> \o split_whitespace(SubSeq(s, e, Len(s)))

\* clean_array_content without the replace that removes the quotes
clean_array_content_quoted(val) ==
    LET cleaned    == RemoveComments(val)
        normalized == ReplaceDoubleSpace(ReplaceChars(cleaned, {"\n", "\t"}, " "))
    IN  SelectSeq(split_whitespace(normalized), LAMBDA t : t # "")

clean_array_content(val) ==
    LET cleaned    == RemoveComments(val)
        normalized == ReplaceDoubleSpace(
                          ReplaceChars(ReplaceChars(cleaned, {"\n", "\t"}, " "),
                                       Quotes, ""))
    IN  SelectSeq(split_whitespace(normalized), LAMBDA t : t # "")

----------------------------------------------------------------------------
(* The record and the passes                                               *)

\* PkgbuildInfo::new
EmptyInfo ==
    [name |-> "", version |-> "", release |-> "",
     arch |-> <<>>, depends |-> <<>>, make_depends |-> <<>>, check_depends |-> <<>>]

\* SetScalar without the `if info.<field>.is_empty()` guards: the last match wins
SetScalarLastWins(i, key, val) ==
    CASE key = "pkgname" -> [i EXCEPT !.name = val]
      [] key = "pkgver"  -> [i EXCEPT !.version = val]
      [] key = "pkgrel"  -> [i EXCEPT !.release = val]
      [] OTHER -> i

\* the match arms of process_variable_matches
SetScalar(i, key, val) ==
    CASE key = "pkgname" /\ i.name = ""    -> [i EXCEPT !.name = val]
      [] key = "pkgver"  /\ i.version = "" -> [i EXCEPT !.version = val]
      [] key = "pkgrel"  /\ i.release = "" -> [i EXCEPT !.release = val]
      [] OTHER -> i

\* SetScalarFallback without the guards: a fallback match overrides
SetScalarFallbackOverrides(i, key, val) ==
    CASE key = "pkgname" -> [i EXCEPT !.name = val]
      [] key = "pkgver"  -> [i EXCEPT !.version = val]
      [] key = "pkgrel"  -> [i EXCEPT !.release = val]
      [] OTHER -> i

\* the match arms of fallback_parse
SetScalarFallback(i, key, val) ==
    CASE key = "pkgname" /\ i.name = ""    -> [i EXCEPT !.name = val]
      [] key = "pkgver"  /\ i.version = "" -> [i EXCEPT !.version = val]
      [] key = "pkgrel"  /\ i.release = "" -> [i EXCEPT !.release = val]
      [] OTHER -> i

\* match arms that extend the list instead of replacing it
SetArrayMerge(i, key, list) ==
    CASE key = "arch"         -> [i EXCEPT !.arch = @ \o list]
      [] key = "depends"      -> [i EXCEPT !.depends = @ \o list]
      [] key = "makedepends"  -> [i EXCEPT !.make_depends = @ \o list]
      [] key = "checkdepends" -> [i EXCEPT !.check_depends = @ \o list]
      [] OTHER -> i

\* the match arms of parse_array_variables
SetArray(i, key, list) ==
    CASE key = "arch"         -> [i EXCEPT !.arch = list]
      [] key = "depends"      -> [i EXCEPT !.depends = list]
      [] key = "makedepends"  -> [i EXCEPT !.make_depends = list]
      [] key = "checkdepends" -> [i EXCEPT !.check_depends = list]
      [] OTHER -> i

RECURSIVE ApplyScalars(_, _, _)
ApplyScalars(caps, k, i) ==
    IF k > Len(caps) THEN i
    ELSE ApplyScalars(caps, k + 1, SetScalar(i, trim(caps[k].key), trim(caps[k].val)))

process_variable_matches(rule, s, i) ==
    ApplyScalars(captures_iter(rule, s, 1), 1, i)

parse_single_variables(s, i) ==
    process_variable_matches("re_unquoted", s,
        process_variable_matches("re_single_quoted", s,
            process_variable_matches("re_double_quoted", s, i)))

RECURSIVE ApplyArrays(_, _, _)
ApplyArrays(caps, k, i) ==
    IF k > Len(caps) THEN i
    ELSE ApplyArrays(caps, k + 1,
                     SetArray(i, trim(caps[k].key), clean_array_content(caps[k].val)))

parse_array_variables(s, i) == ApplyArrays(captures_iter("re_array", s, 1), 1, i)

FallbackValue(val) == trim_matches(trim(RemoveComments(trim(val))), Quotes)

RECURSIVE ApplyFallback(_, _, _)
ApplyFallback(caps, k, i) ==
    IF k > Len(caps) THEN i
    ELSE ApplyFallback(caps, k + 1,
                       SetScalarFallback(i, trim(caps[k].key), FallbackValue(caps[k].val)))

fallback_parse(s, i) == ApplyFallback(captures_iter("re_simple", s, 1), 1, i)

\* the condition with && for ||: fallback only when nothing at all was found
NeedsFallbackAllEmpty(i) == i.name = "" /\ i.version = "" /\ i.release = ""

\* the condition of the `if` around fallback_parse in parse
NeedsFallback(i) == i.name = "" \/ i.version = "" \/ i.release = ""

\* the message with the pkgrel part of the format string left out
MissingMessageNoRelease(i) ==
    "Missing required variables. Found: pkgname='" \o i.name
    \o "', pkgver='" \o i.version
    \o "'. This suggests the PKGBUILD format is unusual or contains complex variable assignments."

\* the format! of validate_info
MissingMessage(i) ==
    "Missing required variables. Found: pkgname='" \o i.name
    \o "', pkgver='" \o i.version \o "', pkgrel='" \o i.release
    \o "'. This suggests the PKGBUILD format is unusual or contains complex variable assignments."

\* BuilderError::pkgbuild_parse
pkgbuild_parse(message, p) ==
    [variant |-> "PkgbuildParse", message |-> message, path |-> p]

\* BuilderError::file_system
file_system(operation, p) ==
    [variant |-> "FileSystem", operation |-> operation, path |-> p]

Ok(v)  == [kind |-> "Ok", value |-> v]
Err(e) == [kind |-> "Err", error |-> e]
Pending == [kind |-> "Pending"]

\* validate_info that forgets to look at release
validate_info_no_release(i, p) ==
    IF i.name = "" \/ i.version = ""
    THEN Err(pkgbuild_parse(MissingMessage(i), p))
    ELSE Ok(i)

\* validate_info that fails only when all three are empty
validate_info_all_empty(i, p) ==
    IF i.name = "" /\ i.version = "" /\ i.release = ""
    THEN Err(pkgbuild_parse(MissingMessage(i), p))
    ELSE Ok(i)

validate_info(i, p) ==
    IF i.name = "" \/ i.version = "" \/ i.release = ""
    THEN Err(pkgbuild_parse(MissingMessage(i), p))
    ELSE Ok(i)

\* the whole of parse on a readable file, as one function of the text
ParseText(s, p) ==
    LET a == parse_array_variables(s, parse_single_variables(s, EmptyInfo))
        f == IF NeedsFallback(a) THEN fallback_parse(s, a) ELSE a
    IN  validate_info(f, p)

----------------------------------------------------------------------------
(* The manifests the model is run on.  A manifest is either a sequence of  *)
(* at most MaxChunks fragments of Chunks, or Header followed by one        *)
(* multi-line array of at most MaxEntries entries of Entries.              *)

MaxChunks == 3

MaxEntries == 3

Chunks ==
    { "pkgname=\"demo\"\n",
      "pkgname=lib\n",
      "pkgname=\"\"\n",
      "pkgname='demo'-git\n",
      "pkgver='1.0.0'  # stable\n",
      "pkgver=$(date)\n",
      "pkgver() {\n",
      "pkgver=2.1\npkgrel=3\n",
      "pkgrel=1\n",
      "epoch=\n",
      "depends=('glibc')\n" }

Header == "pkgname=demo\npkgver=1.0.0\npkgrel=1\n"

Entries ==
    { "    'dep1'\n",
      "    'dep2>=1.0'  # comment\n",
      "    'dep3'\n",
      "    'libx' # needed (x11)\n" }

ArrayKeys == {"depends", "makedepends"}

Paths == {"PKGBUILD", "pkg/PKGBUILD"}

SeqsUpTo(S, n) == UNION { [1..k -> S] : k \in 0..n }

RECURSIVE Concat(_)
Concat(q) == IF Len(q) = 0 THEN "" ELSE Head(q) \o Concat(Tail(q))

ChunkManifests == { Concat(q) : q \in SeqsUpTo(Chunks, MaxChunks) }

ArrayManifests ==
    { Header \o k \o "=(\n" \o Concat(q) \o ")\n" :
        k \in ArrayKeys, q \in SeqsUpTo(Entries, MaxEntries) }

----------------------------------------------------------------------------
(* The parts of the program a specification leaves idle                    *)

\* the compiled rules held by a PkgbuildParser
PatternSet ==
    [ re_double_quoted |-> "re_double_quoted",
      re_single_quoted |-> "re_single_quoted",
      re_unquoted      |-> "re_unquoted",
      re_array         |-> "re_array",
      re_comment       |-> "re_comment",
      re_simple        |-> "re_simple" ]

NoCall == [fn |-> "none"]

NoReturn == [kind |-> "none"]

ParseIdle ==
    /\ path = ""
    /\ readable = FALSE
    /\ disk = ""
    /\ content = ""
    /\ info = EmptyInfo
    /\ pc = "idle"
    /\ result = Pending
    /\ passes = <<>>
    /\ ioLog = <<>>

SharedIdle == parser = PatternSet /\ calls = <<>>

HelpersIdle == call = NoCall /\ ret = NoReturn

SequenceIdle ==
    /\ commands = <<>>
    /\ started = <<>>
    /\ results = <<>>
    /\ seqResult = Pending

NoConfig == [output_dir |-> "", patterns |-> <<>>, preserve_sources |-> FALSE]

NoArtifact == [source |-> "", destination |-> "", operation |-> "none"]

CollectIdle ==
    /\ config = NoConfig
    /\ fsys = <<>>
    /\ fsys0 = <<>>
    /\ cpc = "idle"
    /\ patIdx = 0
    /\ files = <<>>
    /\ artifacts = <<>>
    /\ collected = <<>>
    /\ found_packages = FALSE
    /\ cur = NoArtifact
    /\ collectResult = Pending

NoEnviron == [CI_COMMIT_TAG |-> [some |-> FALSE], CI_JOB_ID |-> [some |-> FALSE], now |-> ""]

VersionIdle ==
    /\ environ = NoEnviron
    /\ versionFile = [exists |-> FALSE, data |-> ""]
    /\ generated = Pending
    /\ loaded = Pending
    /\ vpc = "idle"

NoBuilderConfig ==
    [primary |-> "", fallback |-> [some |-> FALSE], install_args |-> <<>>,
     handle_rust_conflict |-> FALSE, rustup_exists |-> FALSE,
     build_args |-> <<>>, sign |-> FALSE, use_ccache |-> FALSE, ccache_dir |-> "",
     clean |-> FALSE]

BuilderIdle ==
    /\ bconfig = NoBuilderConfig
    /\ request = EmptyInfo
    /\ packages = <<>>
    /\ effects = <<>>
    /\ cwd = {}
    /\ bpc = "idle"
    /\ bResult = Pending

WorkflowIdle == CollectIdle /\ VersionIdle /\ BuilderIdle

----------------------------------------------------------------------------
(* One call of PkgbuildParser::parse                                       *)

Init ==
    /\ \/ /\ readable = TRUE
          /\ path = "PKGBUILD"
          /\ disk \in ChunkManifests \cup ArrayManifests
       \/ /\ readable = TRUE
          /\ path = "pkg/PKGBUILD"
          /\ disk \in { Concat(q) : q \in SeqsUpTo(Chunks, 1) }
       \/ /\ readable = FALSE
          /\ path \in Paths
          /\ disk = ""
    /\ content = ""
    /\ info = EmptyInfo
    /\ pc = "start"
    /\ result = Pending
    /\ passes = <<>>
    /\ ioLog = <<>>
    /\ SharedIdle
    /\ HelpersIdle
    /\ SequenceIdle
    /\ WorkflowIdle

\* a read that is tried a second time when it fails
ReadFileRetrying ==
    /\ pc = "start"
    /\ IF readable
       THEN /\ ioLog' = Append(ioLog, [op |-> "read_to_string", path |-> path])
            /\ content' = disk
            /\ pc' = "double"
            /\ UNCHANGED result
       ELSE /\ ioLog' = ioLog \o << [op |-> "read_to_string", path |-> path],
                                    [op |-> "read_to_string", path |-> path] >>
            /\ result' = Err(file_system("read", path))
            /\ pc' = "done"
            /\ UNCHANGED content
    /\ UNCHANGED <<path, readable, disk, info, passes>>
    /\ UNCHANGED <<sharedVars, helperVars, sequenceVars, workflowVars>>

\* std::fs::read_to_string(path), then PkgbuildInfo::new()
ReadFile ==
    /\ pc = "start"
    /\ ioLog' = Append(ioLog, [op |-> "read_to_string", path |-> path])
    /\ IF readable
       THEN /\ content' = disk
            /\ pc' = "double"
            /\ UNCHANGED result
       ELSE /\ result' = Err(file_system("read", path))
            /\ pc' = "done"
            /\ UNCHANGED content
    /\ UNCHANGED <<path, readable, disk, info, passes>>
    /\ UNCHANGED <<sharedVars, helperVars, sequenceVars, workflowVars>>

\* one call of process_variable_matches from parse_single_variables
ScalarStep(at, rule, then) ==
    /\ pc = at
    /\ info' = process_variable_matches(rule, content, info)
    /\ passes' = Append(passes, rule)
    /\ pc' = then
    /\ UNCHANGED <<path, readable, disk, content, result, ioLog>>
    /\ UNCHANGED <<sharedVars, helperVars, sequenceVars, workflowVars>>

\* the double-quoted slot of parse_single_variables running the unquoted rule
UnquotedPassFirst == ScalarStep("double", "re_unquoted", "single")

DoubleQuotedPass == ScalarStep("double", "re_double_quoted", "single")

SingleQuotedPass == ScalarStep("single", "re_single_quoted", "unquoted")

UnquotedPass == ScalarStep("unquoted", "re_unquoted", "array")

ArrayPass ==
    /\ pc = "array"
    /\ info' = parse_array_variables(content, info)
    /\ passes' = Append(passes, "re_array")
    /\ pc' = "branch"
    /\ UNCHANGED <<path, readable, disk, content, result, ioLog>>
    /\ UNCHANGED <<sharedVars, helperVars, sequenceVars, workflowVars>>

\* a fallback that sources the manifest in a shell to find the missing fields
FallbackPassSourcing ==
    /\ pc = "branch"
    /\ NeedsFallback(info)
    /\ info' = fallback_parse(content, info)
    /\ passes' = Append(passes, "re_simple")
    /\ ioLog' = Append(ioLog, [op |-> "spawn", path |-> "bash"])
    /\ pc' = "validate"
    /\ UNCHANGED <<path, readable, disk, content, result>>
    /\ UNCHANGED <<sharedVars, helperVars, sequenceVars, workflowVars>>

FallbackPass ==
    /\ pc = "branch"
    /\ NeedsFallback(info)
    /\ info' = fallback_parse(content, info)
    /\ passes' = Append(passes, "re_simple")
    /\ pc' = "validate"
    /\ UNCHANGED <<path, readable, disk, content, result, ioLog>>
    /\ UNCHANGED <<sharedVars, helperVars, sequenceVars, workflowVars>>

\* a validation that sends a rejected call through the passes once more
ValidateRetryOnce ==
    /\ \/ pc = "validate"
       \/ pc = "branch" /\ ~NeedsFallback(info)
    /\ passes' = Append(passes, "validate")
    /\ IF validate_info(info, path).kind = "Err" /\ Len(passes) < 7
       THEN pc' = "double" /\ UNCHANGED result
       ELSE pc' = "done" /\ result' = validate_info(info, path)
    /\ UNCHANGED <<path, readable, disk, content, info, ioLog>>
    /\ UNCHANGED <<sharedVars, helperVars, sequenceVars, workflowVars>>

Validate ==
    /\ \/ pc = "validate"
       \/ pc = "branch" /\ ~NeedsFallback(info)
    /\ result' = validate_info(info, path)
    /\ passes' = Append(passes, "validate")
    /\ pc' = "done"
    /\ UNCHANGED <<path, readable, disk, content, info, ioLog>>
    /\ UNCHANGED <<sharedVars, helperVars, sequenceVars, workflowVars>>

Next ==
    \/ ReadFile
    \/ DoubleQuotedPass
    \/ SingleQuotedPass
    \/ UnquotedPass
    \/ ArrayPass
    \/ FallbackPass
    \/ Validate

Spec == Init /\ [][Next]_vars

TypeOK ==
    /\ pc \in {"idle", "start", "double", "single", "unquoted", "array", "branch",
              "validate", "done"}
    /\ result.kind \in {"Pending", "Ok", "Err"}
    /\ (pc = "done") = (result.kind # "Pending")

----------------------------------------------------------------------------
(* Reading a manifest as text, for the statements below                    *)

\* sub occurs in s at position i
OccursAt(sub, s, i) ==
    i >= 1 /\ i + Len(sub) - 1 <= Len(s) /\ SubSeq(s, i, i + Len(sub) - 1) = sub

Occurrences(sub, s) == { i \in 1..Len(s) : OccursAt(sub, s, i) }

Occurs(sub, s) == \E i \in 1..(Len(s) - Len(sub) + 1) : OccursAt(sub, s, i)

MandatoryKeys == {"pkgname", "pkgver", "pkgrel"}

Field(i, key) ==
    CASE key = "pkgname" -> i.name
      [] key = "pkgver"  -> i.version
      [] key = "pkgrel"  -> i.release

----------------------------------------------------------------------------
\* C1: whenever parse returns a record (Ok), its name, version and release
\* are all non-empty; the four list fields may be empty.
C1_OkRecordHasMandatoryFields ==
    result.kind = "Ok" =>
        /\ result.value.name # ""
        /\ result.value.version # ""
        /\ result.value.release # ""

\* a record is returned whose four lists are all empty
C1_Witness ==
    /\ result.kind = "Ok"
    /\ result.value.arch = <<>>
    /\ result.value.depends = <<>>
    /\ result.value.make_depends = <<>>
    /\ result.value.check_depends = <<>>

\* C2: for a readable manifest parse fails, with a PKGBUILD parse error, if
\* and only if one of name, version, release is empty after the passes; a
\* manifest with none of pkgname/pkgver/pkgrel fails, and otherwise the
\* record built by the passes is returned as it is, whatever its lists.
C2_FailsIffMandatoryFieldEmpty ==
    pc = "done" /\ readable =>
        /\ (result.kind = "Err") <=>
               (info.name = "" \/ info.version = "" \/ info.release = "")
        /\ result.kind = "Err" => result.error.variant = "PkgbuildParse"
        /\ result.kind = "Ok" => result.value = info
        /\ (\A k \in MandatoryKeys : ~Occurs(k, content)) => result.kind = "Err"

\* a non-empty manifest with none of the three keys has been rejected
C2_Witness ==
    /\ pc = "done"
    /\ readable
    /\ content # ""
    /\ \A k \in MandatoryKeys : ~Occurs(k, content)
    /\ result.kind = "Err"
    /\ result.error.variant = "PkgbuildParse"

\* C3: a validation failure carries the path of the manifest and echoes the
\* three fields as found, a missing one as an empty pair of quotes; for a
\* manifest without any pkgrel the message shows pkgrel='' next to the
\* parsed name and version.
C3_ErrorNamesPathAndFields ==
    result.kind = "Err" /\ result.error.variant = "PkgbuildParse" =>
        /\ result.error.path = path
        /\ Occurs("Missing required variables", result.error.message)
        /\ Occurs("pkgname='" \o info.name \o "'", result.error.message)
        /\ Occurs("pkgver='" \o info.version \o "'", result.error.message)
        /\ Occurs("pkgrel='" \o info.release \o "'", result.error.message)
        /\ ~Occurs("pkgrel", content) =>
               /\ info.release = ""
               /\ Occurs("pkgrel=''", result.error.message)

\* a manifest with a name and a version and no pkgrel at all has been rejected
C3_Witness ==
    /\ result.kind = "Err"
    /\ result.error.variant = "PkgbuildParse"
    /\ ~Occurs("pkgrel", content)
    /\ info.name # ""
    /\ info.version # ""
    /\ info.release = ""

\* C4: between entry and return the call does one whole-file read of the
\* manifest and nothing else outside its record: no process is started, and
\* manifest text is kept as text.
C4_OnlyOneFileRead ==
    /\ Len(ioLog) = (IF pc = "start" THEN 0 ELSE 1)
    /\ \A k \in 1..Len(ioLog) : ioLog[k] = [op |-> "read_to_string", path |-> path]

\* the call has ended on a manifest that needed the fallback pass and holds a
\* command substitution, with the single read in its log
C4_Witness ==
    /\ pc = "done"
    /\ Occurs("$(date)", content)
    /\ Len(SelectSeq(passes, LAMBDA r : r = "re_simple")) = 1
    /\ ioLog = <<[op |-> "read_to_string", path |-> path]>>

----------------------------------------------------------------------------
(* Dynamic versions                                                        *)

\* every mention of pkgver in s is the head of a function or of a command
\* substitution, and there is at least one
DynamicVersionOnly(s) ==
    /\ Occurs("pkgver", s)
    /\ \A i \in Occurrences("pkgver", s) :
           OccursAt("pkgver() {", s, i) \/ OccursAt("pkgver=$(", s, i)

\* C5: a manifest whose version can only be had by evaluating code (a
\* pkgver() function, or pkgver assigned a command substitution, and no
\* static pkgver assignment) is rejected with a missing-field failure.
C5_DynamicVersionRejected ==
    pc = "done" /\ readable /\ DynamicVersionOnly(content) =>
        /\ result.kind = "Err"
        /\ result.error.variant = "PkgbuildParse"

----------------------------------------------------------------------------
(* Scalar declarations, read line by line                                  *)

RECURSIVE LinesOf(_)
LinesOf(s) ==
    LET e == LineEnd(s, 1)
    IN  IF e > Len(s) THEN (IF s = "" THEN <<>> ELSE <<s>>)
        ELSE <<SubSeq(s, 1, e - 1)>> \o LinesOf(SubSeq(s, e + 1, Len(s)))

StartsWith(s, prefix) == OccursAt(prefix, s, 1)

\* the lines of s that assign key
DeclLines(s, key) ==
    SelectSeq(LinesOf(s), LAMBDA l : StartsWith(l, key \o "="))

\* what follows "key=" on the line, without a trailing comment
DeclBody(l, key) ==
    LET r == SubSeq(l, Len(key) + 2, Len(l))
    IN  trim(SubSeq(r, 1, SkipNotIn(r, 1, {"#"}) - 1))

IsQuotedWith(b, q) ==
    /\ Len(b) >= 2
    /\ Ch(b, 1) = q
    /\ Ch(b, Len(b)) = q
    /\ ~Occurs(q, SubSeq(b, 2, Len(b) - 1))

\* the value a well-formed declaration body declares, "" when it is none
DeclaredValue(b) ==
    IF IsQuotedWith(b, "\"") \/ IsQuotedWith(b, "'")
    THEN trim(SubSeq(b, 2, Len(b) - 1))
    ELSE IF ~Occurs("\"", b) /\ ~Occurs("'", b) THEN b
    ELSE ""

DeclaredOnce(s, key) ==
    /\ Len(DeclLines(s, key)) = 1
    /\ Cardinality(Occurrences(key, s)) = 1
    /\ DeclaredValue(DeclBody(DeclLines(s, key)[1], key)) # ""

ValueOf(s, key) == DeclaredValue(DeclBody(DeclLines(s, key)[1], key))

\* C6: when pkgname, pkgver and pkgrel are each declared once, in one of the
\* three scalar styles and possibly with a trailing comment, parse succeeds
\* and the three fields are the declared values without quotes and
\* surrounding whitespace.
C6_DeclaredScalarsAreParsed ==
    pc = "done" /\ readable /\ (\A k \in MandatoryKeys : DeclaredOnce(content, k)) =>
        /\ result.kind = "Ok"
        /\ \A k \in MandatoryKeys : Field(result.value, k) = ValueOf(content, k)

----------------------------------------------------------------------------
(* Scan order of the scalar pass                                           *)

ScalarRules == <<"re_double_quoted", "re_single_quoted", "re_unquoted">>

\* the captures of the first n scalar rules, in scan order
RECURSIVE ScanCaptures(_, _)
ScanCaptures(s, n) ==
    IF n = 0 THEN <<>>
    ELSE ScanCaptures(s, n - 1) \o captures_iter(ScalarRules[n], s, 1)

\* the non-empty trimmed values captured for key, in the order of caps
CapturedValues(caps, key) ==
    LET hits == SelectSeq(caps, LAMBDA m : m.key = key /\ trim(m.val) # "")
    IN  [k \in 1..Len(hits) |-> trim(hits[k].val)]

FirstCaptured(caps, key) ==
    LET hits == SelectSeq(caps, LAMBDA m : m.key = key /\ trim(m.val) # "")
    IN  IF hits = <<>> THEN "" ELSE trim(hits[1].val)

RulesDone ==
    CASE pc \in {"start", "double"} -> 0
      [] pc = "single" -> 1
      [] pc = "unquoted" -> 2
      [] OTHER -> Len(ScalarRules)

\* field holds first if there is one; before the fallback pass it is empty
\* if there is none
HoldsFirst(field, first) ==
    IF first # "" THEN field = first ELSE pc # "done" => field = ""

KeepsFirst(caps) ==
    \A k \in MandatoryKeys : HoldsFirst(Field(info, k), FirstCaptured(caps, k))

\* C7: a mandatory key declared more than once keeps the first non-empty
\* value captured in scan order (all double-quoted matches in text order,
\* then all single-quoted ones, then all unquoted ones); nothing captured
\* later replaces it, so an earlier quoted assignment wins over a later
\* unquoted one.
C7_FirstCapturedValueIsKept ==
    readable /\ pc \in {"single", "unquoted", "array", "done"} =>
        KeepsFirst(ScanCaptures(content, RulesDone))

\* pkgname is captured double-quoted as demo on an earlier line and unquoted
\* as lib on a later one, and the call ended with demo
C7_Witness ==
    /\ pc = "done"
    /\ CapturedValues(ScanCaptures(content, Len(ScalarRules)), "pkgname") = <<"demo", "lib">>
    /\ \E i \in Occurrences("pkgname=\"demo\"", content) :
           \E j \in Occurrences("pkgname=lib", content) : i < j
    /\ info.name = "demo"

----------------------------------------------------------------------------
\* C8: the fallback pass changes no mandatory scalar that was non-empty
\* before it, and changes none of the four lists.
C8_FallbackOnlyFillsGaps ==
    [][ pc = "branch" /\ pc' = "validate" =>
            /\ \A k \in MandatoryKeys :
                   Field(info, k) # "" => Field(info', k) = Field(info, k)
            /\ info'.arch = info.arch
            /\ info'.depends = info.depends
            /\ info'.make_depends = info.make_depends
            /\ info'.check_depends = info.check_depends ]_vars

\* the fallback pass has run over a match for pkgname whose value differs
\* from the name the scalar pass had set, with a list set by the array pass
C8_Witness ==
    /\ pc = "validate"
    /\ info.name # ""
    /\ info.name = FirstCaptured(ScanCaptures(content, Len(ScalarRules)), "pkgname")
    /\ \E k \in 1..Len(captures_iter("re_simple", content, 1)) :
           LET m == captures_iter("re_simple", content, 1)[k]
           IN  m.key = "pkgname" /\ FallbackValue(m.val) \notin {"", info.name}
    /\ info.depends # <<>>

----------------------------------------------------------------------------
SomeFieldEmpty(i) == \E k \in MandatoryKeys : Field(i, k) = ""

\* the number of fallback passes the call has run
FallbackRuns == Len(SelectSeq(passes, LAMBDA r : r = "re_simple"))

\* C9: the fallback pass runs in a call if and only if one of name, version,
\* release is empty after the scalar and array passes, and at most once.
C9_FallbackIffFieldEmpty ==
    /\ FallbackRuns <= 1
    /\ pc \notin {"validate", "done"} => FallbackRuns = 0
    /\ pc = "validate" => FallbackRuns = 1
    /\ pc = "done" /\ readable =>
           (FallbackRuns = 1) <=>
               SomeFieldEmpty(parse_array_variables(content,
                                  parse_single_variables(content, EmptyInfo)))

\* a call has ended without the fallback pass, all three fields set by the
\* scalar pass
C9_Witness ==
    /\ pc = "done"
    /\ readable
    /\ FallbackRuns = 0
    /\ \A k \in MandatoryKeys :
           FirstCaptured(ScanCaptures(content, Len(ScalarRules)), k) # ""

----------------------------------------------------------------------------
(* Multi-line arrays, read line by line                                    *)

ArrayField(i, key) ==
    CASE key = "arch"         -> i.arch
      [] key = "depends"      -> i.depends
      [] key = "makedepends"  -> i.make_depends
      [] key = "checkdepends" -> i.check_depends

\* the index of the first line of ls, after line lo, that is equal to l; 0 if none
RECURSIVE LineIndex(_, _, _)
LineIndex(ls, l, lo) ==
    IF lo >= Len(ls) THEN 0
    ELSE IF ls[lo + 1] = l THEN lo + 1
    ELSE LineIndex(ls, l, lo + 1)

\* the token of an entry line: what stands between its first two single quotes
EntryToken(l) ==
    LET a == SkipNotIn(l, 1, {"'"})
        b == SkipNotIn(l, a + 1, {"'"})
    IN  SubSeq(l, a + 1, b - 1)

\* s holds "key=(" on a line of its own, entry lines, then ")" on a line of
\* its own
IsMultiLineArray(s, key) ==
    LET ls    == LinesOf(s)
        open  == LineIndex(ls, key \o "=(", 0)
        close == LineIndex(ls, ")", open)
    IN  /\ open # 0
        /\ close > open + 1
        /\ \A k \in (open + 1)..(close - 1) : Occurs("'", ls[k])
        /\ \E k \in (open + 1)..(close - 1) : Occurs("#", ls[k])

DeclaredTokens(s, key) ==
    LET ls    == LinesOf(s)
        open  == LineIndex(ls, key \o "=(", 0)
        close == LineIndex(ls, ")", open)
    IN  [k \in 1..(close - open - 1) |-> EntryToken(ls[open + k])]

\* C10: a recognized array whose body spans several lines, with inline #
\* comments after entries, yields exactly the entries' tokens, quotes and
\* comments removed, every entry kept, in declaration order.
C10_MultiLineArrayKeepsEveryEntry ==
    pc = "done" /\ readable =>
        \A key \in ArrayKeys :
            IsMultiLineArray(content, key) =>
                ArrayField(info, key) = DeclaredTokens(content, key)

----------------------------------------------------------------------------
(* Manifests made of array assignments                                     *)

MaxArrays == 3

\* the scalar lines of the manifest of test_parse_simple_pkgbuild, for the
\* package demo
ScenarioHead == "pkgname=\"demo\"\npkgver=\"1.0.0\"\npkgrel=1\n"

\* scalar lines that leave the release out
ShortHead == "pkgname=demo\n"

\* scalar lines whose name only the fallback rule captures
OddHead == "pkgname='demo'-git\npkgver=1\npkgrel=1\n"

ArrayChunks ==
    { "arch=('x86_64' 'aarch64')\n",
      "depends=('glibc')\n",
      "makedepends=('gcc' 'make')\n",
      "depends=()\n",
      "depends=(\n    'zlib' # z\n    \"curl\"\n)\n",
      "source=('x.tar')\n",
      "checkdepends=('check')\n" }

RecognizedArrayKeys == {"arch", "depends", "makedepends", "checkdepends"}

ArrayTexts(head, n) == { head \o Concat(q) : q \in SeqsUpTo(ArrayChunks, n) }

InitArrays ==
    /\ \/ /\ readable = TRUE
          /\ path = "PKGBUILD"
          /\ disk \in ArrayTexts(ScenarioHead, MaxArrays)
                       \cup ArrayTexts(ShortHead, 1) \cup ArrayTexts(OddHead, 1)
       \/ /\ readable = FALSE
          /\ path \in Paths
          /\ disk = ""
    /\ content = ""
    /\ info = EmptyInfo
    /\ pc = "start"
    /\ result = Pending
    /\ passes = <<>>
    /\ ioLog = <<>>
    /\ SharedIdle
    /\ HelpersIdle
    /\ SequenceIdle
    /\ WorkflowIdle

SpecArrays == InitArrays /\ [][Next]_vars

\* the indices of the matches of caps for key
MatchesFor(caps, key) == { k \in 1..Len(caps) : trim(caps[k].key) = key }

Last(S) == CHOOSE k \in S : \A j \in S : j <= k

\* the list the array pass leaves for key: the tokens of the last match for
\* key, or the list as it was when no match has that key
AfterArrayPass(caps, key, before) ==
    IF MatchesFor(caps, key) = {} THEN before
    ELSE clean_array_content(caps[Last(MatchesFor(caps, key))].val)

ArrayPassOverwrites(caps) ==
    /\ \A key \in RecognizedArrayKeys :
           ArrayField(info', key) = AfterArrayPass(caps, key, ArrayField(info, key))
    /\ \A k \in MandatoryKeys : Field(info', k) = Field(info, k)

\* C11: the array pass leaves each of arch, depends, makedepends,
\* checkdepends with the tokens of the last match for that key alone, an
\* empty list if that match is empty, and matches for other keys change no
\* field of the record.
C11_ArrayPassLastMatchWins ==
    [][ pc = "array" /\ pc' = "branch" =>
            ArrayPassOverwrites(captures_iter("re_array", content, 1)) ]_vars

\* the array pass has run over a match for source and two matches for
\* depends, the first with a token and the last empty, and left depends empty
C11_Witness ==
    /\ pc = "branch"
    /\ info.depends = <<>>
    /\ LET caps == captures_iter("re_array", content, 1)
       IN  /\ MatchesFor(caps, "source") # {}
           /\ \E j, k \in MatchesFor(caps, "depends") :
                  /\ j < k
                  /\ k = Last(MatchesFor(caps, "depends"))
                  /\ clean_array_content(caps[j].val) # <<>>
                  /\ clean_array_content(caps[k].val) = <<>>

----------------------------------------------------------------------------
(* The order of the passes                                                 *)

PcValues ==
    {"start", "double", "single", "unquoted", "array", "branch", "validate", "done"}

\* the positions at which parse has a statement left to run
Runnable == pc \in PcValues \ {"done"}

\* the call moves on to another position
Advance == Runnable /\ pc' \in PcValues \ {pc}

\* parse is straight-line synchronous code: no statement of it waits for
\* anything, so a call that has not returned takes its next step
FairArrays == SpecArrays /\ WF_pc(Advance)

WithoutFallback ==
    <<"re_double_quoted", "re_single_quoted", "re_unquoted", "re_array", "validate">>

WithFallback ==
    <<"re_double_quoted", "re_single_quoted", "re_unquoted", "re_array",
      "re_simple", "validate">>

IsPrefix(a, b) == Len(a) <= Len(b) /\ SubSeq(b, 1, Len(a)) = a

\* the passes run so far are the beginning of the one linear sequence, and
\* the call has a result exactly when the sequence is complete
LinearPassSequence ==
    /\ IsPrefix(passes, WithoutFallback) \/ IsPrefix(passes, WithFallback)
    /\ IF passes \in {WithoutFallback, WithFallback}
       THEN /\ pc = "done"
            /\ result.kind \in {"Ok", "Err"}
            /\ result.kind = "Ok" => result.value = info
            /\ result.kind = "Err" =>
                   /\ result.error.variant = "PkgbuildParse"
                   /\ SomeFieldEmpty(info)
       ELSE pc # "done" /\ result = Pending

\* C12: once the text is read the call runs the three scalar rules, the
\* array rule, the fallback rule or not, and the validation, each at most
\* once and in this order, and then ends with a record or with the
\* validator's rejection, which is the only failure.
C12_PassesRunOnceInOrder ==
    /\ [](readable => LinearPassSequence)
    /\ [][pc # "start" => Len(passes') = Len(passes) + 1]_vars
    /\ (readable /\ pc = "double") ~> (pc = "done" /\ result.kind \in {"Ok", "Err"})

\* a call that ran the fallback pass has ended with a record
C12_Witness ==
    /\ pc = "done"
    /\ readable
    /\ passes = WithFallback
    /\ result.kind = "Ok"

----------------------------------------------------------------------------
(* Parse calls on one shared PkgbuildParser.  parse takes &self: a call     *)
(* reads the rules of the parser and works on its own locals.  Calls are    *)
(* entered one after another or while earlier calls are still running, and  *)
(* each running call takes its steps at its own pace.                       *)

MaxCalls == 3

\* the files the calls are made on; they do not change between calls
Files ==
    [ p \in {"a/PKGBUILD", "b/PKGBUILD"} |->
        IF p = "a/PKGBUILD" THEN ScenarioHead \o "depends=('glibc')\n" ELSE ShortHead ]

MissingPath == "c/PKGBUILD"

CallPaths == DOMAIN Files \cup {MissingPath}

\* the locals of a call at its entry
NewCall(p) ==
    [ path |-> p, content |-> "", info |-> EmptyInfo, pc |-> "start",
      result |-> Pending ]

\* the next statement of parse, run by call c on parser p
StepCall(p, c) ==
    CASE c.pc = "start" ->
             IF c.path \in DOMAIN Files
             THEN [c EXCEPT !.content = Files[c.path], !.pc = "double"]
             ELSE [c EXCEPT !.result = Err(file_system("read", c.path)), !.pc = "done"]
      [] c.pc = "double" ->
             [c EXCEPT !.info = process_variable_matches(p.re_double_quoted, c.content, c.info),
                       !.pc = "single"]
      [] c.pc = "single" ->
             [c EXCEPT !.info = process_variable_matches(p.re_single_quoted, c.content, c.info),
                       !.pc = "unquoted"]
      [] c.pc = "unquoted" ->
             [c EXCEPT !.info = process_variable_matches(p.re_unquoted, c.content, c.info),
                       !.pc = "array"]
      [] c.pc = "array" ->
             [c EXCEPT !.info = parse_array_variables(c.content, c.info), !.pc = "branch"]
      [] c.pc = "branch" /\ NeedsFallback(c.info) ->
             [c EXCEPT !.info = fallback_parse(c.content, c.info), !.pc = "validate"]
      [] c.pc = "validate" \/ (c.pc = "branch" /\ ~NeedsFallback(c.info)) ->
             [c EXCEPT !.result = validate_info(c.info, c.path), !.pc = "done"]

InitShared ==
    /\ parser = PatternSet
    /\ calls = <<>>
    /\ ParseIdle
    /\ HelpersIdle
    /\ SequenceIdle
    /\ WorkflowIdle

\* a parser that keeps the record of the call entered before
BeginCallKeepingRecord ==
    /\ Len(calls) < MaxCalls
    /\ \E p \in CallPaths :
           calls' = Append(calls,
                           IF calls = <<>> THEN NewCall(p)
                           ELSE [NewCall(p) EXCEPT !.info = calls[Len(calls)].info])
    /\ UNCHANGED <<parser, parseVars, helperVars, sequenceVars, workflowVars>>

\* parse is entered on a path
BeginCall ==
    /\ Len(calls) < MaxCalls
    /\ \E p \in CallPaths : calls' = Append(calls, NewCall(p))
    /\ UNCHANGED <<parser, parseVars, helperVars, sequenceVars, workflowVars>>

\* call t runs its next statement
CallStep(t) ==
    /\ calls[t].pc # "done"
    /\ calls' = [calls EXCEPT ![t] = StepCall(parser, calls[t])]
    /\ UNCHANGED <<parser, parseVars, helperVars, sequenceVars, workflowVars>>

NextShared ==
    \/ BeginCall
    \/ \E t \in 1..Len(calls) : CallStep(t)

SpecShared == InitShared /\ [][NextShared]_vars

----------------------------------------------------------------------------
\* the calls that have returned
Returned == { t \in 1..Len(calls) : calls[t].pc = "done" }

\* C13: the parser keeps nothing between calls: two calls on the same
\* manifest text made on the same parser, whatever other calls are made in
\* between, return equal records or the same failure.
C13_SameTextSameOutcome ==
    /\ parser = PatternSet
    /\ \A i, j \in Returned :
           calls[i].path = calls[j].path => calls[i].result = calls[j].result

\* the manifest of a/PKGBUILD was parsed, then the one of b/PKGBUILD, which
\* is rejected, then the one of a/PKGBUILD again, with the record of the first
C13_Witness ==
    /\ Returned = {1, 2, 3}
    /\ calls[1].path = "a/PKGBUILD"
    /\ calls[2].path = "b/PKGBUILD"
    /\ calls[3].path = "a/PKGBUILD"
    /\ calls[2].result.kind = "Err"
    /\ calls[1].result.kind = "Ok"
    /\ calls[3].result = calls[1].result

\* what a call on path p returns when it is the only call
Alone(p) ==
    IF p \in DOMAIN Files THEN ParseText(Files[p], p)
    ELSE Err(file_system("read", p))

\* C14: however the steps of concurrent calls on one parser interleave, a
\* call returns what it returns when run alone; a step of a call changes
\* the locals of that call only, and no step changes the parser.
C14_ConcurrentCallsAreIndependent ==
    /\ [](parser = PatternSet)
    /\ [][ \A t \in 1..Len(calls) :
               calls'[t] # calls[t] =>
                   /\ \A u \in 1..Len(calls) \ {t} : calls'[u] = calls[u]
                   /\ calls'[t].pc = "done" =>
                          calls'[t].result = Alone(calls[t].path) ]_vars

\* a call entered second has returned its record while the call entered
\* first, on another file, is still in its scalar pass
C14_Witness ==
    /\ Len(calls) >= 2
    /\ calls[1].path = "b/PKGBUILD"
    /\ calls[1].pc = "single"
    /\ calls[1].info.name = ""
    /\ calls[2].path = "a/PKGBUILD"
    /\ calls[2].pc = "done"
    /\ calls[2].result.kind = "Ok"
    /\ calls[2].result = Alone(calls[2].path)

----------------------------------------------------------------------------
(* Helper functions: PkgbuildInfo::full_version and all_dependencies,      *)
(* PackageBuilder::handle_rust_conflict, ArtifactCollector::should_copy_file *)

\* format!("{}-{}", self.version, self.release)
full_version(i) == i.version \o "-" \o i.release

\* q without the later occurrences of its elements
RECURSIVE Dedup(_)
Dedup(q) ==
    IF q = <<>> THEN <<>>
    ELSE LET front == Dedup(SubSeq(q, 1, Len(q) - 1))
             last  == q[Len(q)]
         IN  IF \E k \in 1..Len(front) : front[k] = last THEN front
             ELSE Append(front, last)

\* a combined list that names each dependency once
all_dependencies_unique(i) == Dedup(i.depends \o i.make_depends \o i.check_depends)

\* depends.clone(), extended by make_depends, then by check_depends
all_dependencies(i) == (i.depends \o i.make_depends) \o i.check_depends

\* the loop of handle_rust_conflict: what is pushed to filtered_deps
FilteredDeps(deps) == SelectSeq(deps, LAMBDA d : d \notin {"rust", "rustup"})

\* has_rust || has_rustup after the loop
RustRequested(deps) == \E k \in 1..Len(deps) : deps[k] \in {"rust", "rustup"}

\* handle_rust_conflict without the retain that drops cargo
handle_rust_conflict_keeps_cargo(deps, rustup_exists) ==
    IF RustRequested(deps)
    THEN IF rustup_exists THEN FilteredDeps(deps)
         ELSE Append(FilteredDeps(deps), "rustup")
    ELSE FilteredDeps(deps)

\* rustup_exists is what command_exists("rustup") answers
handle_rust_conflict(deps, rustup_exists) ==
    IF RustRequested(deps)
    THEN IF rustup_exists
         THEN SelectSeq(FilteredDeps(deps), LAMBDA d : d # "cargo")
         ELSE Append(FilteredDeps(deps), "rustup")
    ELSE FilteredDeps(deps)

\* the components of a path: the pieces between "/", without empty pieces
\* and without "."
RECURSIVE Components(_)
Components(f) ==
    IF f = "" THEN <<>>
    ELSE LET e    == SkipNotIn(f, 1, {"/"})
             head == SubSeq(f, 1, e - 1)
             rest == Components(SubSeq(f, e + 1, Len(f)))
         IN  IF head \in {"", "."} THEN rest ELSE <<head>> \o rest

None == [some |-> FALSE]

Some(v) == [some |-> TRUE, value |-> v]

\* Path::file_name: the last component, None when there is none or it is ".."
file_name(f) ==
    LET c == Components(f)
    IN  IF c = <<>> \/ c[Len(c)] = ".." THEN None ELSE Some(c[Len(c)])

SourceFiles == {"PKGBUILD", ".SRCINFO"}

\* should_copy_file that copies source files whatever preserve_sources is
should_copy_file_always(preserve_sources, file_path, pattern) ==
    file_name(file_path) \in {Some(n) : n \in SourceFiles} \/ pattern \in SourceFiles

should_copy_file(preserve_sources, file_path, pattern) ==
    IF preserve_sources /\ file_name(file_path) \in {Some("PKGBUILD"), Some(".SRCINFO")}
    THEN TRUE
    ELSE IF pattern = "PKGBUILD" \/ pattern = ".SRCINFO" THEN preserve_sources
    ELSE FALSE

EndsWith(s, suffix) ==
    Len(suffix) <= Len(s) /\ SubSeq(s, Len(s) - Len(suffix) + 1, Len(s)) = suffix

CollectionSummary ==
    [total |-> 0, packages |-> 0, logs |-> 0, sources |-> 0, others |-> 0,
     copied |-> 0, moved |-> 0]

\* the operation counters of get_collection_summary
CountOperation(summary, a) ==
    IF a.operation = "Copied"
    THEN [summary EXCEPT !.copied = @ + 1]
    ELSE [summary EXCEPT !.moved = @ + 1]

\* a loop body that tests the log suffix on its own, not as an else branch
CountOverlapping(summary, a) ==
    LET name == file_name(a.source)
        n    == name.value
        p    == IF Occurs(".pkg.tar.", n) THEN 1 ELSE 0
        l    == IF EndsWith(n, ".log") THEN 1 ELSE 0
        s    == IF p + l = 0 /\ n \in {"PKGBUILD", ".SRCINFO"} THEN 1 ELSE 0
        o    == IF p + l + s = 0 THEN 1 ELSE 0
    IN  IF ~name.some THEN summary
        ELSE CountOperation([summary EXCEPT !.packages = @ + p, !.logs = @ + l,
                                            !.sources = @ + s, !.others = @ + o], a)

\* the loop body of get_collection_summary
Count(summary, a) ==
    LET name == file_name(a.source)
        n    == name.value
    IN  IF ~name.some THEN summary
        ELSE CountOperation(
                 IF Occurs(".pkg.tar.", n) THEN [summary EXCEPT !.packages = @ + 1]
                 ELSE IF EndsWith(n, ".log") THEN [summary EXCEPT !.logs = @ + 1]
                 ELSE IF n = "PKGBUILD" \/ n = ".SRCINFO" THEN [summary EXCEPT !.sources = @ + 1]
                 ELSE [summary EXCEPT !.others = @ + 1],
                 a)

RECURSIVE SummarizeOverlapping(_, _)
SummarizeOverlapping(artifact_list, summary) ==
    IF artifact_list = <<>> THEN summary
    ELSE SummarizeOverlapping(Tail(artifact_list),
                              CountOverlapping(summary, Head(artifact_list)))

get_collection_summary_overlapping(artifact_list) ==
    [SummarizeOverlapping(artifact_list, CollectionSummary) EXCEPT
        !.total = Len(artifact_list)]

\* the loop of get_collection_summary
RECURSIVE Summarize(_, _)
Summarize(artifact_list, summary) ==
    IF artifact_list = <<>> THEN summary
    ELSE Summarize(Tail(artifact_list), Count(summary, Head(artifact_list)))

get_collection_summary(artifact_list) ==
    [Summarize(artifact_list, CollectionSummary) EXCEPT !.total = Len(artifact_list)]

MaxArtifacts == 3

\* artifacts as collect_file returns them: a source with a file name, the
\* destination under the output directory, and the operation
SummarySources ==
    { "demo-1.0-1-any.pkg.tar.zst", "demo-1.0-1-any.pkg.tar.zst.log", "build.log",
      "PKGBUILD", "notes.txt" }

SummaryArtifacts ==
    { [source |-> s, destination |-> "artifacts/" \o s, operation |-> o] :
        s \in SummarySources, o \in {"Copied", "Moved"} }

MaxDeps == 2

MaxRustDeps == 3

DepNames == {"glibc", "gcc"}

RustDeps == {"rust", "rustup", "cargo", "gcc", "make"}

FilePaths ==
    { "PKGBUILD", ".SRCINFO", "pkg/PKGBUILD", "./.SRCINFO", "PKGBUILD/..",
      "PKGBUILD.bak", "demo-1.0.0-1-x86_64.pkg.tar.zst", "logs/build.log" }

Patterns == {"PKGBUILD", ".SRCINFO", "*.pkg.tar.*", "*.log"}

Records ==
    { [EmptyInfo EXCEPT !.name = "demo", !.version = "1.0.0", !.release = "1",
                        !.depends = d, !.make_depends = m, !.check_depends = c] :
        d \in SeqsUpTo(DepNames, MaxDeps), m \in SeqsUpTo(DepNames, MaxDeps),
        c \in SeqsUpTo(DepNames, MaxDeps) }

HelperCalls ==
    { [fn |-> "all_dependencies", self |-> r] : r \in Records }
    \cup { [fn |-> "handle_rust_conflict", deps |-> d, rustup_exists |-> b] :
             d \in SeqsUpTo(RustDeps, MaxRustDeps), b \in BOOLEAN }
    \cup { [fn |-> "should_copy_file", preserve_sources |-> b, file_path |-> f,
            pattern |-> p] : b \in BOOLEAN, f \in FilePaths, p \in Patterns }
    \cup { [fn |-> "get_collection_summary", artifacts |-> l] :
             l \in SeqsUpTo(SummaryArtifacts, MaxArtifacts) }

Return(v) == [kind |-> "value", value |-> v]

InitHelpers ==
    /\ call \in HelperCalls
    /\ ret = NoReturn
    /\ ParseIdle
    /\ SharedIdle
    /\ SequenceIdle
    /\ WorkflowIdle

AllDependencies ==
    /\ call.fn = "all_dependencies"
    /\ ret = NoReturn
    /\ ret' = Return(all_dependencies(call.self))
    /\ UNCHANGED <<call, parseVars, sharedVars, sequenceVars, workflowVars>>

HandleRustConflict ==
    /\ call.fn = "handle_rust_conflict"
    /\ ret = NoReturn
    /\ ret' = Return(handle_rust_conflict(call.deps, call.rustup_exists))
    /\ UNCHANGED <<call, parseVars, sharedVars, sequenceVars, workflowVars>>

ShouldCopyFile ==
    /\ call.fn = "should_copy_file"
    /\ ret = NoReturn
    /\ ret' = Return(should_copy_file(call.preserve_sources, call.file_path, call.pattern))
    /\ UNCHANGED <<call, parseVars, sharedVars, sequenceVars, workflowVars>>

GetCollectionSummary ==
    /\ call.fn = "get_collection_summary"
    /\ ret = NoReturn
    /\ ret' = Return(get_collection_summary(call.artifacts))
    /\ UNCHANGED <<call, parseVars, sharedVars, sequenceVars, workflowVars>>

NextHelpers ==
    \/ AllDependencies
    \/ HandleRustConflict
    \/ ShouldCopyFile
    \/ GetCollectionSummary

SpecHelpers == InitHelpers /\ [][NextHelpers]_vars

----------------------------------------------------------------------------
HasReturned(fn) == call.fn = fn /\ ret # NoReturn

\* C15: all_dependencies() is depends, then make_depends, then
\* check_depends, element for element and duplicates included, so it is as
\* long as the three lists together; the record is left as it was.
C15_AllDependenciesConcatenates ==
    /\ [](HasReturned("all_dependencies") =>
            LET r == call.self
                v == ret.value
            IN  /\ Len(v) = Len(r.depends) + Len(r.make_depends) + Len(r.check_depends)
                /\ SubSeq(v, 1, Len(r.depends)) = r.depends
                /\ SubSeq(v, Len(r.depends) + 1, Len(r.depends) + Len(r.make_depends))
                       = r.make_depends
                /\ SubSeq(v, Len(r.depends) + Len(r.make_depends) + 1, Len(v))
                       = r.check_depends)
    /\ [][call.fn = "all_dependencies" => call' = call]_vars

\* all_dependencies has returned glibc three times, once from each list
C15_Witness ==
    /\ HasReturned("all_dependencies")
    /\ call.self.depends = <<"glibc">>
    /\ call.self.make_depends = <<"gcc", "glibc">>
    /\ call.self.check_depends = <<"glibc">>
    /\ ret.value = <<"glibc", "gcc", "glibc", "glibc">>

----------------------------------------------------------------------------
IsIn(x, q) == \E k \in 1..Len(q) : q[k] = x

Others(q) == SelectSeq(q, LAMBDA d : d \notin {"rust", "rustup", "cargo"})

\* C19: the list handle_rust_conflict returns never holds rust and keeps
\* the dependencies other than rust, rustup and cargo in their order; when
\* rust or rustup was asked for it holds rustup if rustup is not available
\* and no cargo if it is; when neither was asked for it is the list given.
C19_RustConflictResolved ==
    HasReturned("handle_rust_conflict") =>
        LET deps == call.deps
            v    == ret.value
        IN  /\ ~IsIn("rust", v)
            /\ Others(v) = Others(deps)
            /\ (IsIn("rust", deps) \/ IsIn("rustup", deps)) =>
                   IF call.rustup_exists THEN ~IsIn("cargo", v) ELSE IsIn("rustup", v)
            /\ ~(IsIn("rust", deps) \/ IsIn("rustup", deps)) => v = deps

\* rust and cargo were asked for between two other dependencies while rustup
\* is available, and the two other dependencies are what is returned
C19_Witness ==
    /\ HasReturned("handle_rust_conflict")
    /\ call.rustup_exists
    /\ call.deps = <<"make", "rust", "cargo">>
    /\ ret.value = <<"make">>

\* the file name of the call is PKGBUILD or .SRCINFO, or its pattern is
IsSourceFile ==
    \/ \E n \in SourceFiles : file_name(call.file_path) = Some(n)
    \/ call.pattern \in SourceFiles

\* C20: should_copy_file answers true exactly when preserve_sources is on
\* and the file is a source file by its name or by its pattern; every other
\* file is moved, and so are the source files when preserve_sources is off.
C20_CopyOnlyPreservedSources ==
    HasReturned("should_copy_file") =>
        (ret.value = TRUE) <=> (call.preserve_sources /\ IsSourceFile)

\* with preserve_sources off, PKGBUILD found by its own pattern is moved
C20_Witness ==
    /\ HasReturned("should_copy_file")
    /\ ~call.preserve_sources
    /\ call.file_path = "PKGBUILD"
    /\ call.pattern = "PKGBUILD"
    /\ ret.value = FALSE

----------------------------------------------------------------------------
\* the manifest of test_parse_simple_pkgbuild, for the package demo built
\* for two architectures
ScenarioManifest ==
    ScenarioHead \o "arch=('x86_64' 'aarch64')\n" \o "depends=('glibc')\n"
                 \o "makedepends=('gcc' 'make')\n"

ScenarioRecord ==
    [ name |-> "demo", version |-> "1.0.0", release |-> "1",
      arch |-> <<"x86_64", "aarch64">>, depends |-> <<"glibc">>,
      make_depends |-> <<"gcc", "make">>, check_depends |-> <<>> ]

\* C16: the manifest with pkgname="demo", pkgver="1.0.0", pkgrel=1, arch of
\* x86_64 and aarch64, depends of glibc and makedepends of gcc and make is
\* parsed without the fallback pass into exactly that record, whose
\* full_version() is 1.0.0-1 and whose all_dependencies() is glibc, gcc, make.
C16_SimpleManifestScenario ==
    pc = "done" /\ readable /\ content = ScenarioManifest =>
        /\ result = Ok(ScenarioRecord)
        /\ FallbackRuns = 0
        /\ full_version(result.value) = "1.0.0-1"
        /\ all_dependencies(result.value) = <<"glibc", "gcc", "make">>

\* the call on that manifest has returned a record
C16_Witness ==
    /\ pc = "done"
    /\ readable
    /\ content = ScenarioManifest
    /\ result.kind = "Ok"
    /\ passes = WithoutFallback

\* C17: when the manifest cannot be read, parse returns the file-system
\* error of the read with the path it was given, after one attempt, having
\* run no pass and no validation and built no record.
C17_UnreadableManifestFails ==
    ~readable /\ pc # "start" =>
        /\ pc = "done"
        /\ result = Err(file_system("read", path))
        /\ passes = <<>>
        /\ info = EmptyInfo
        /\ content = ""
        /\ ioLog = <<[op |-> "read_to_string", path |-> path]>>

\* the call on the unreadable pkg/PKGBUILD has returned
C17_Witness ==
    /\ ~readable
    /\ path = "pkg/PKGBUILD"
    /\ pc = "done"
    /\ result.kind = "Err"
    /\ result.error.variant = "FileSystem"

----------------------------------------------------------------------------
(* ProcessRunner::run_commands_sequence (src/rust/src/utils/process.rs)    *)

MaxCommands == 3

\* the commands of the tests of process.rs, and one that cannot be started
CommandSet ==
    { [command |-> "echo",   args |-> <<"first">>],
      [command |-> "echo",   args |-> <<"second">>],
      [command |-> "false",  args |-> <<>>],
      [command |-> "nosuch", args |-> <<"-v">>] }

RECURSIVE Join(_, _)
Join(q, sep) ==
    IF q = <<>> THEN ""
    ELSE IF Len(q) = 1 THEN q[1]
    ELSE q[1] \o sep \o Join(Tail(q), sep)

\* format!("{} {}", command, args.join(" "))
cmd_str(c) == c.command \o " " \o Join(c.args, " ")

\* BuilderError::process
process(command, exit_code, stdout, stderr) ==
    [ variant |-> "Process", command |-> command, exit_code |-> exit_code,
      stdout |-> stdout, stderr |-> stderr ]

ProcessResult(exit_code, stdout, stderr, success) ==
    [exit_code |-> exit_code, stdout |-> stdout, stderr |-> stderr, success |-> success]

\* the Display of an io::Error made from an OS error
IoError(message, code) == message \o " (os error " \o code \o ")"

NotFound == IoError("No such file or directory", "2")

\* run_command_with_output on a system where echo prints its arguments,
\* false exits with 1 and no other program is installed, so that
\* Command::output fails with ENOENT
run_command_with_output(c) ==
    CASE c.command = "echo" ->
             Ok(ProcessResult(Some(0), Join(c.args, " ") \o "\n", "", TRUE))
      [] c.command = "false" ->
             Err(process(cmd_str(c), Some(1), "", ""))
      [] OTHER ->
             Err(process(cmd_str(c), None, "", "Failed to execute command: " \o NotFound))

InitSequence ==
    /\ commands \in SeqsUpTo(CommandSet, MaxCommands)
    /\ started = <<>>
    /\ results = <<>>
    /\ seqResult = Pending
    /\ ParseIdle
    /\ SharedIdle
    /\ HelpersIdle
    /\ WorkflowIdle

\* a loop that only logs a failed command and goes on to the next one
RunNextCommandAfterFailure ==
    /\ Len(started) < Len(commands)
    /\ seqResult.kind # "Ok"
    /\ LET c == commands[Len(started) + 1]
           r == run_command_with_output(c)
       IN  /\ started' = Append(started, c)
           /\ IF r.kind = "Ok"
              THEN results' = Append(results, r.value) /\ UNCHANGED seqResult
              ELSE seqResult' = r /\ UNCHANGED results
    /\ UNCHANGED <<commands, parseVars, sharedVars, helperVars, workflowVars>>

\* one turn of the for loop
RunNextCommand ==
    /\ seqResult = Pending
    /\ Len(started) < Len(commands)
    /\ LET c == commands[Len(started) + 1]
           r == run_command_with_output(c)
       IN  /\ started' = Append(started, c)
           /\ IF r.kind = "Ok"
              THEN results' = Append(results, r.value) /\ UNCHANGED seqResult
              ELSE seqResult' = r /\ UNCHANGED results
    /\ UNCHANGED <<commands, parseVars, sharedVars, helperVars, workflowVars>>

\* Ok(results) after the loop
ReturnResults ==
    /\ seqResult = Pending
    /\ Len(started) = Len(commands)
    /\ seqResult' = Ok(results)
    /\ UNCHANGED <<commands, started, results, parseVars, sharedVars, helperVars, workflowVars>>

NextSequence ==
    \/ RunNextCommand
    \/ ReturnResults

SpecSequence == InitSequence /\ [][NextSequence]_vars

----------------------------------------------------------------------------
Fails(c) == run_command_with_output(c).kind = "Err"

\* the positions of the commands that fail
Failing == { k \in 1..Len(commands) : Fails(commands[k]) }

First(S) == CHOOSE k \in S : \A j \in S : k <= j

\* C18: run_commands_sequence starts the commands in list order, one after
\* the other, and starts none after a command that failed; it returns the
\* error of the first command that fails, without the results gathered so
\* far, and when no command fails one result for each command, in order.
C18_SequenceStopsAtFirstFailure ==
    /\ started = SubSeq(commands, 1, Len(started))
    /\ \A k \in 1..(Len(started) - 1) : ~Fails(started[k])
    /\ seqResult.kind = "Err" =>
           /\ Failing # {}
           /\ Len(started) = First(Failing)
           /\ seqResult = run_command_with_output(commands[First(Failing)])
           /\ DOMAIN seqResult = {"kind", "error"}
    /\ seqResult.kind = "Ok" =>
           /\ Failing = {}
           /\ Len(seqResult.value) = Len(commands)
           /\ \A k \in 1..Len(commands) :
                  Ok(seqResult.value[k]) = run_command_with_output(commands[k])

\* echo first, false, echo second: the error of false is returned, with one
\* result gathered and the third command never started
C18_Witness ==
    /\ Len(commands) = 3
    /\ commands[1].command = "echo"
    /\ commands[2].command = "false"
    /\ commands[3].command = "echo"
    /\ seqResult.kind = "Err"
    /\ seqResult.error.exit_code = Some(1)
    /\ Len(results) = 1
    /\ Len(started) = 2

----------------------------------------------------------------------------
(* ArtifactCollector::collect (src/rust/src/core/artifacts.rs) over the    *)
(* files of the working directory, with FileSystemUtils::copy_file and     *)
(* move_file (src/rust/src/utils/fs.rs) taken one file operation at a time *)

MaxFiles == 3

\* the names a working directory may hold, in the order glob yields paths
NameOrder ==
    << ".SRCINFO", "PKGBUILD", "build.log", "demo-1.0-1-any.pkg.tar.gz",
       "demo-1.0-1-any.pkg.tar.zst", "demo-1.0-1-any.pkg.tar.zst.log" >>

CwdNames == { NameOrder[k] : k \in 1..Len(NameOrder) }

DefaultPatterns == << "*.pkg.tar.*", "*.log", "PKGBUILD", ".SRCINFO" >>

PatternLists == { DefaultPatterns, << "*.log", "PKGBUILD" >>, << "*.zst", "PKGBUILD" >> }

OutputDirs == { "artifacts", ".", "out/pkg" }

NoFile == [exists |-> FALSE, data |-> ""]

File(d) == [exists |-> TRUE, data |-> d]

\* what a path names when it is no regular file
Directory == [exists |-> TRUE, data |-> "", kind |-> "directory"]

Socket == [exists |-> TRUE, data |-> "", kind |-> "socket"]

\* Metadata::is_file of an entry
IsRegular(f) == f.exists /\ f # Directory /\ f # Socket

ContentOf(name) == "data of " \o name

\* PathBuf::join of a relative name
path_join(base, name) ==
    IF base = "" THEN name
    ELSE IF Ch(base, Len(base)) = "/" THEN base \o name
    ELSE base \o "/" \o name

\* the file a relative path names: its components without "." pieces
Resolve(p) == Join(Components(p), "/")

AllPaths == CwdNames \cup { Resolve(path_join(o, n)) : o \in OutputDirs, n \in CwdNames }

\* glob::glob in the working directory for the patterns in use, with the
\* Err entries dropped as flatten() and the warn! arm drop them: a literal
\* name, or "*" followed by a literal suffix; paths come in sorted order,
\* whatever they name.  The directory is read as a whole: when reading it
\* fails (listed is FALSE) the only entry is an Err and no path is left
glob(pattern, fs, listed) ==
    IF ~listed THEN <<>>
    ELSE IF Ch(pattern, 1) = "*"
    THEN SelectSeq(NameOrder,
                   LAMBDA n : fs[n].exists /\ EndsWith(n, SubSeq(pattern, 2, Len(pattern))))
    ELSE IF pattern \in CwdNames /\ fs[pattern].exists THEN <<pattern>> ELSE <<>>

\* whether each directory read or stat of one find_* call succeeds
Reads == [1..3 -> BOOLEAN]

find_package_files(fs, r) ==
    glob("*.pkg.tar.xz", fs, r[1]) \o glob("*.pkg.tar.zst", fs, r[2])
    \o glob("*.pkg.tar.gz", fs, r[3])

find_log_files(fs, r) == glob("*.log", fs, r[1])

\* Path::exists is false as well when the stat fails (r[1] is FALSE)
find_exact_file(filename, fs, r) ==
    IF r[1] /\ filename \in CwdNames /\ fs[filename].exists THEN <<filename>> ELSE <<>>

find_glob_pattern(pattern, fs, r) == glob(pattern, fs, r[1])

\* the match of collect_pattern
FindFiles(pattern, fs, r) ==
    CASE pattern = "*.pkg.tar.*" -> find_package_files(fs, r)
      [] pattern = "*.log"       -> find_log_files(fs, r)
      [] pattern = "PKGBUILD"    -> find_exact_file("PKGBUILD", fs, r)
      [] pattern = ".SRCINFO"    -> find_exact_file(".SRCINFO", fs, r)
      [] OTHER                   -> find_glob_pattern(pattern, fs, r)

artifact(message, p) == [type |-> "Artifact", message |-> message, path |-> p]

CollectedArtifact(source, destination, operation) ==
    [source |-> source, destination |-> destination, operation |-> operation]

\* the name in the output directory that may be taken before collect runs
StaleName == "build.log"

\* what may be there under that name: nothing, a file of an earlier run, a
\* directory or a socket
StaleObjects == {NoFile, File("old data"), Directory, Socket}

\* the names of the working directory that may be directories
DirectoryNames == {"PKGBUILD"}

InitCollect ==
    /\ config \in [output_dir : OutputDirs, patterns : PatternLists,
                   preserve_sources : BOOLEAN]
    /\ \E present \in SUBSET CwdNames, dirs \in SUBSET DirectoryNames,
          stale \in StaleObjects :
          /\ Cardinality(present) <= MaxFiles
          /\ dirs \subseteq present
          /\ dirs # {} => stale = NoFile
          /\ fsys = [f \in AllPaths |->
                       IF f \in dirs THEN Directory
                       ELSE IF f \in present THEN File(ContentOf(f))
                       ELSE IF f = Resolve(path_join(config.output_dir, StaleName))
                            THEN stale
                       ELSE NoFile]
    /\ fsys0 = fsys
    /\ cpc = "start"
    /\ patIdx = 0
    /\ files = <<>>
    /\ artifacts = <<>>
    /\ collected = <<>>
    /\ found_packages = FALSE
    /\ cur = NoArtifact
    /\ collectResult = Pending
    /\ ParseIdle
    /\ SharedIdle
    /\ HelpersIdle
    /\ SequenceIdle
    /\ VersionIdle
    /\ BuilderIdle

notCollectVars ==
    <<parseVars, sharedVars, helperVars, sequenceVars, versionVars, builderVars>>

\* collect returns e: the ? of collect_file, collect_pattern and collect
Fail(e) ==
    /\ collectResult' = Err(e)
    /\ cpc' = "done"

\* strerror of the errno values the file operations fail with
OsError ==
    [ EPERM        |-> IoError("Operation not permitted", "1"),
      ENOENT       |-> NotFound,
      EIO          |-> IoError("Input/output error", "5"),
      ENXIO        |-> IoError("No such device or address", "6"),
      ENOMEM       |-> IoError("Cannot allocate memory", "12"),
      EACCES       |-> IoError("Permission denied", "13"),
      EBUSY        |-> IoError("Device or resource busy", "16"),
      EEXIST       |-> IoError("File exists", "17"),
      ENOTDIR      |-> IoError("Not a directory", "20"),
      EISDIR       |-> IoError("Is a directory", "21"),
      ENFILE       |-> IoError("Too many open files in system", "23"),
      EMFILE       |-> IoError("Too many open files", "24"),
      ETXTBSY      |-> IoError("Text file busy", "26"),
      EFBIG        |-> IoError("File too large", "27"),
      ENOSPC       |-> IoError("No space left on device", "28"),
      EROFS        |-> IoError("Read-only file system", "30"),
      EMLINK       |-> IoError("Too many links", "31"),
      ENAMETOOLONG |-> IoError("File name too long", "36"),
      ENOTEMPTY    |-> IoError("Directory not empty", "39"),
      ELOOP        |-> IoError("Too many levels of symbolic links", "40"),
      EDQUOT       |-> IoError("Disk quota exceeded", "122") ]

OsErrors(names) == { OsError[n] : n \in names }

\* the io errors of fs::create_dir_all: those of mkdir(2) and stat(2)
CreateDirErrors ==
    OsErrors({"EACCES", "EDQUOT", "EEXIST", "EIO", "ELOOP", "EMLINK", "ENAMETOOLONG",
              "ENOENT", "ENOMEM", "ENOSPC", "ENOTDIR", "EPERM", "EROFS"})

\* the io errors of opening the two files of fs::copy: those of open(2)
OpenErrors ==
    OsErrors({"EACCES", "EBUSY", "EDQUOT", "EIO", "EISDIR", "ELOOP", "EMFILE",
              "ENAMETOOLONG", "ENFILE", "ENOENT", "ENOMEM", "ENOSPC", "ENOTDIR",
              "ENXIO", "EPERM", "EROFS", "ETXTBSY"})

\* the InvalidInput error of fs::copy for a source that is no regular file
NotRegularFile ==
    "the source path is neither a regular file nor a symlink to a regular file"

\* the io errors of copying the bytes in fs::copy: those of read(2) and write(2)
WriteErrors == OsErrors({"EDQUOT", "EFBIG", "EIO", "ENOSPC", "EPERM"})

\* the io errors of fs::metadata and fs::set_permissions: those of stat(2)
\* and chmod(2)
PermissionErrors ==
    OsErrors({"EACCES", "EIO", "ELOOP", "ENAMETOOLONG", "ENOENT", "ENOMEM", "ENOTDIR",
              "EPERM", "EROFS"})

\* the io errors of fs::remove_file: those of unlink(2)
RemoveErrors ==
    OsErrors({"EACCES", "EBUSY", "EIO", "EISDIR", "ELOOP", "ENAMETOOLONG", "ENOENT",
              "ENOMEM", "ENOTDIR", "EPERM", "EROFS"})

\* collect up to the loop: create_dir_all(output_dir) succeeds or fails
CollectStart ==
    /\ cpc = "start"
    /\ \/ /\ cpc' = "pattern"
          /\ patIdx' = 1
          /\ UNCHANGED collectResult
       \/ /\ \E e \in CreateDirErrors :
                Fail(artifact("Failed to create artifacts directory: " \o e,
                              config.output_dir))
          /\ UNCHANGED patIdx
    /\ UNCHANGED <<config, fsys, fsys0, files, artifacts, collected, found_packages, cur>>
    /\ UNCHANGED notCollectVars

\* collect_pattern up to its loop: the files of the pattern are looked up
BeginPattern ==
    /\ cpc = "pattern"
    /\ patIdx <= Len(config.patterns)
    /\ \E r \in Reads : files' = FindFiles(config.patterns[patIdx], fsys, r)
    /\ artifacts' = <<>>
    /\ cpc' = "file"
    /\ UNCHANGED <<config, fsys, fsys0, patIdx, collected, found_packages, cur, collectResult>>
    /\ UNCHANGED notCollectVars

\* collect_file up to the file operation
BeginFile ==
    /\ cpc = "file"
    /\ files # <<>>
    /\ LET file_path == Head(files)
           pattern   == config.patterns[patIdx]
           name      == file_name(file_path)
       IN  IF ~name.some
           THEN /\ Fail(artifact("Invalid file name", file_path))
                /\ UNCHANGED <<cur, files>>
           ELSE /\ cur' = CollectedArtifact(
                              file_path,
                              path_join(config.output_dir, name.value),
                              IF should_copy_file(config.preserve_sources, file_path, pattern)
                              THEN "Copied" ELSE "Moved")
                /\ files' = Tail(files)
                /\ cpc' = IF cur'.operation = "Copied" THEN "copy" ELSE "rename"
                /\ UNCHANGED collectResult
    /\ UNCHANGED <<config, fsys, fsys0, patIdx, artifacts, collected, found_packages>>
    /\ UNCHANGED notCollectVars

\* collect_file returns its artifact to the loop of collect_pattern
Collected ==
    /\ artifacts' = Append(artifacts, cur)
    /\ cpc' = "file"

Src == Resolve(cur.source)

Dst == Resolve(cur.destination)

\* the map_err of collect_file: format!("Failed to copy {}: {}", file_name, e)
FailedTo(verb, e) ==
    Fail(artifact("Failed to " \o verb \o " " \o file_name(cur.source).value \o ": " \o e,
                  cur.source))

\* the verb of the message for the operation under way
Verb == IF cur.operation = "Copied" THEN "copy" ELSE "move"

\* the prefixes of d a copy that fails has written: all of d as well, when
\* the error comes after the last byte
Written(d) == { SubSeq(d, 1, n) : n \in 0..Len(d) }

\* fs::rename(Src, Dst) can succeed: a path is renamed onto itself, a
\* directory only onto a directory or a free name, nothing else onto a
\* directory
CanRename(fs, src, dst) ==
    \/ src = dst
    \/ IF fs[src] = Directory
       THEN ~fs[dst].exists \/ fs[dst] = Directory
       ELSE fs[dst] # Directory

\* fs::copy(Src, Dst) can open both: a regular source, and a destination
\* that is free or a regular file
CanCopy(fs, src, dst) ==
    IsRegular(fs[src]) /\ (~fs[dst].exists \/ IsRegular(fs[dst]))

\* the io errors of create_dir_all and of the opens of fs::copy; a
\* directory as the source is opened and then refused
CopyOpenErrors(fs, src) ==
    CreateDirErrors \cup OpenErrors
    \cup (IF fs[src] = Directory THEN {NotRegularFile} ELSE {})

\* move_file: create_dir_all(parent) fails, or fs::rename moves the file in
\* one step (and leaves a file renamed onto itself as it is), or fails and
\* leaves the disk as it was
Rename ==
    /\ cpc = "rename"
    /\ \/ /\ \E e \in CreateDirErrors : FailedTo("move", e)
          /\ UNCHANGED <<fsys, artifacts>>
       \/ /\ CanRename(fsys, Src, Dst)
          /\ fsys' = IF Src = Dst THEN fsys
                     ELSE [fsys EXCEPT ![Dst] = fsys[Src], ![Src] = NoFile]
          /\ Collected
          /\ UNCHANGED collectResult
       \/ /\ cpc' = "copy"
          /\ UNCHANGED <<fsys, artifacts, collectResult>>
    /\ UNCHANGED <<config, fsys0, patIdx, files, collected, found_packages, cur>>
    /\ UNCHANGED notCollectVars

\* copy_file up to the open of fs::copy: create_dir_all(parent) or the open
\* fails, or the destination is created or truncated
CopyOpen ==
    /\ cpc = "copy"
    /\ \/ /\ CanCopy(fsys, Src, Dst)
          /\ fsys' = [fsys EXCEPT ![Dst] = File("")]
          /\ cpc' = "write"
          /\ UNCHANGED collectResult
       \/ /\ \E e \in CopyOpenErrors(fsys, Src) : FailedTo(Verb, e)
          /\ UNCHANGED fsys
    /\ UNCHANGED <<config, fsys0, patIdx, files, artifacts, collected, found_packages, cur>>
    /\ UNCHANGED notCollectVars

\* copy_file, fs::copy: the bytes the source holds now are written, or the
\* write fails and leaves the destination with the bytes written before
CopyWrite ==
    /\ cpc = "write"
    /\ \/ /\ fsys' = [fsys EXCEPT ![Dst] = fsys[Src]]
          /\ cpc' = "permissions"
          /\ UNCHANGED collectResult
       \/ /\ \E e \in WriteErrors : FailedTo(Verb, e)
          /\ \E d \in Written(fsys[Src].data) : fsys' = [fsys EXCEPT ![Dst] = File(d)]
    /\ UNCHANGED <<config, fsys0, patIdx, files, artifacts, collected, found_packages, cur>>
    /\ UNCHANGED notCollectVars

\* copy_file: metadata and set_permissions; a copy is then done, a move
\* goes on to remove the source
CopyPermissions ==
    /\ cpc = "permissions"
    /\ \/ /\ IF cur.operation = "Copied"
             THEN Collected
             ELSE cpc' = "remove" /\ UNCHANGED artifacts
          /\ UNCHANGED collectResult
       \/ /\ \E e \in PermissionErrors : FailedTo(Verb, e)
          /\ UNCHANGED artifacts
    /\ UNCHANGED <<config, fsys, fsys0, patIdx, files, collected, found_packages, cur>>
    /\ UNCHANGED notCollectVars

\* move_file: fs::remove_file(src) after the copy
RemoveSource ==
    /\ cpc = "remove"
    /\ \/ /\ fsys' = [fsys EXCEPT ![Src] = NoFile]
          /\ Collected
          /\ UNCHANGED collectResult
       \/ /\ \E e \in RemoveErrors : FailedTo("move", e)
          /\ UNCHANGED <<fsys, artifacts>>
    /\ UNCHANGED <<config, fsys0, patIdx, files, collected, found_packages, cur>>
    /\ UNCHANGED notCollectVars

\* the end of collect_pattern and the rest of the loop body of collect
EndPattern ==
    /\ cpc = "file"
    /\ files = <<>>
    /\ found_packages' =
          IF Occurs(".pkg.tar.", config.patterns[patIdx]) /\ artifacts # <<>>
          THEN TRUE ELSE found_packages
    /\ collected' = collected \o artifacts
    /\ patIdx' = patIdx + 1
    /\ cpc' = "pattern"
    /\ UNCHANGED <<config, fsys, fsys0, files, artifacts, cur, collectResult>>
    /\ UNCHANGED notCollectVars

NoPackagesMessage == "No package files (*.pkg.tar.*) were found to collect"

\* collect after the loop
CollectReturn ==
    /\ cpc = "pattern"
    /\ patIdx > Len(config.patterns)
    /\ collectResult' = IF ~found_packages
                        THEN Err(artifact(NoPackagesMessage, config.output_dir))
                        ELSE Ok(collected)
    /\ cpc' = "done"
    /\ UNCHANGED <<config, fsys, fsys0, patIdx, files, artifacts, collected, found_packages, cur>>
    /\ UNCHANGED notCollectVars

\* the io errors of fs::remove_dir_all: those of opendir(3), unlink(2) and
\* rmdir(2)
RemoveDirErrors == RemoveErrors \cup OsErrors({"EMFILE", "ENFILE", "ENOTEMPTY"})

\* what fs::remove_file(p) can come to: the file is removed, or an io error
RemoveFileOutcomes(fs, p) ==
    IF ~fs[p].exists THEN RemoveErrors
    ELSE (IF fs[p] = Directory THEN {} ELSE {"removed"}) \cup (RemoveErrors \ {NotFound})

\* remove_file_if_exists: the files afterwards and the value returned
remove_file_if_exists(fs, p, outcome) ==
    IF outcome = "removed" THEN [fs |-> [fs EXCEPT ![p] = NoFile], ret |-> Ok(TRUE)]
    ELSE IF outcome = NotFound THEN [fs |-> fs, ret |-> Ok(FALSE)]
    ELSE [fs |-> fs, ret |-> Err(outcome)]

\* the files below directory d
Under(fs, d) == { q \in DOMAIN fs : fs[q].exists /\ StartsWith(q, Resolve(d) \o "/") }

\* what fs::remove_dir_all(d) can come to: a directory that holds files is
\* there, an empty one may be missing
RemoveDirOutcomes(fs, d) ==
    {"removed"} \cup (RemoveDirErrors \ (IF Under(fs, d) = {} THEN {} ELSE {NotFound}))

\* remove_dir_all_if_exists: the files afterwards, when those of gone were
\* removed before the outcome, and the value returned
remove_dir_all_if_exists(fs, d, gone, outcome) ==
    LET after == [q \in DOMAIN fs |-> IF q \in gone THEN NoFile ELSE fs[q]]
    IN  IF outcome = "removed" THEN [fs |-> after, ret |-> Ok(TRUE)]
        ELSE IF outcome = NotFound THEN [fs |-> after, ret |-> Ok(FALSE)]
        ELSE [fs |-> after, ret |-> Err(outcome)]

\* the files gone when remove_dir_all(d) comes to outcome: all of them when
\* it succeeds, none when the directory is missing, some when it fails
Gone(fs, d, outcome) ==
    IF outcome = "removed" THEN {Under(fs, d)}
    ELSE IF outcome = NotFound THEN {{}}
    ELSE SUBSET Under(fs, d)

\* FileSystemUtils::remove_file_if_exists, called before collect
RemoveFileIfExists(p) ==
    /\ cpc = "start"
    /\ \E outcome \in RemoveFileOutcomes(fsys, p) :
          fsys' = remove_file_if_exists(fsys, p, outcome).fs
    /\ fsys0' = fsys'
    /\ UNCHANGED <<config, cpc, patIdx, files, artifacts, collected, found_packages, cur,
                   collectResult>>
    /\ UNCHANGED notCollectVars

\* FileSystemUtils::remove_dir_all_if_exists, called before collect
RemoveDirAllIfExists(d) ==
    /\ cpc = "start"
    /\ \E outcome \in RemoveDirOutcomes(fsys, d) :
          \E gone \in Gone(fsys, d, outcome) :
             fsys' = remove_dir_all_if_exists(fsys, d, gone, outcome).fs
    /\ fsys0' = fsys'
    /\ UNCHANGED <<config, cpc, patIdx, files, artifacts, collected, found_packages, cur,
                   collectResult>>
    /\ UNCHANGED notCollectVars

NextCollect ==
    \/ \E p \in AllPaths : RemoveFileIfExists(p)
    \/ \E d \in OutputDirs \ {"."} : RemoveDirAllIfExists(d)
    \/ CollectStart
    \/ BeginPattern
    \/ BeginFile
    \/ Rename
    \/ CopyOpen
    \/ CopyWrite
    \/ CopyPermissions
    \/ RemoveSource
    \/ EndPattern
    \/ CollectReturn

SpecCollect == InitCollect /\ [][NextCollect]_vars

----------------------------------------------------------------------------
(* VersionGenerator (src/rust/src/utils/env.rs): the version command       *)
(* parses the PKGBUILD and generates the version file; load_from_file      *)
(* reads it back                                                           *)

MaxArch == 2

NameDecls == { "pkgname=demo\n", "pkgname=\"demo-git\"\n", "pkgname='demo'\n" }

VersionDecls ==
    { "", "pkgver=1.0.0\n", "pkgver=\"1.0.0\"  # stable\n", "pkgver='1.0.0'\n",
      "pkgver='\"1.0\"'\n", "pkgver='1.0\"'\n" }

ArchLists == SeqsUpTo({"x86_64", "aarch64"}, MaxArch)

ArchDecl(list) ==
    IF list = <<>> THEN "" ELSE "arch=('" \o Join(list, "' '") \o "')\n"

VersionManifests ==
    { n \o v \o "pkgrel=1\n" \o ArchDecl(a) :
        n \in NameDecls, v \in VersionDecls, a \in ArchLists }

Environs ==
    [CI_COMMIT_TAG : {None, Some("v1.0.0")}, CI_JOB_ID : {None, Some("12345")},
     now : {"2026-01-01T00:00:00+00:00"}]

\* Option::unwrap_or_else
unwrap_or(option, default) == IF option.some THEN option.value ELSE default

create_version_info(i, e) ==
    [version      |-> i.version,
     pkg_release  |-> i.release,
     full_version |-> full_version(i),
     package_name |-> i.name,
     tag_version  |-> unwrap_or(e.CI_COMMIT_TAG, i.version),
     build_job_id |-> unwrap_or(e.CI_JOB_ID, "local"),
     build_date   |-> e.now,
     arch         |-> Join(i.arch, " ")]

format_as_env_file(v) ==
    "VERSION=" \o v.version \o "\n"
    \o "PKG_RELEASE=" \o v.pkg_release \o "\n"
    \o "FULL_VERSION=" \o v.full_version \o "\n"
    \o "PACKAGE_NAME=" \o v.package_name \o "\n"
    \o "TAG_VERSION=" \o v.tag_version \o "\n"
    \o "BUILD_JOB_ID=" \o v.build_job_id \o "\n"
    \o "BUILD_DATE=" \o v.build_date \o "\n"
    \o "ARCH=\"" \o v.arch \o "\"\n"

\* str::lines: the pieces that end in "\n", each without the "\r" of a
\* "\r\n" ending, and what follows the last "\n" as it is, when not empty
RECURSIVE lines(_)
lines(s) ==
    LET e == LineEnd(s, 1)
        l == SubSeq(s, 1, e - 1)
    IN  IF e > Len(s) THEN (IF s = "" THEN <<>> ELSE <<s>>)
        ELSE << IF Ch(l, Len(l)) = "\r" THEN SubSeq(l, 1, Len(l) - 1) ELSE l >>
             \o lines(SubSeq(s, e + 1, Len(s)))

\* str::split_once('=')
split_once(line) ==
    LET i == SkipNotIn(line, 1, {"="})
    IN  IF i > Len(line) THEN None
        ELSE Some(<<SubSeq(line, 1, i - 1), SubSeq(line, i + 1, Len(line))>>)

\* the loop of parse_env_content: env_vars as the list of inserted pairs
RECURSIVE EnvVars(_)
EnvVars(ls) ==
    IF ls = <<>> THEN <<>>
    ELSE LET line == trim(ls[Len(ls)])
             kv   == split_once(line)
             rest == EnvVars(SubSeq(ls, 1, Len(ls) - 1))
         IN  IF line = "" \/ StartsWith(line, "#") \/ ~kv.some THEN rest
             ELSE Append(rest, <<trim(kv.value[1]), trim_matches(trim(kv.value[2]), {"\""})>>)

\* HashMap::get after the inserts: the value of the last insert of key
get(env_vars, key) ==
    LET at == {k \in 1..Len(env_vars) : env_vars[k][1] = key}
    IN  IF at = {} THEN None ELSE Some(env_vars[Last(at)][2])

parse_env_content(text, now) ==
    LET env_vars == EnvVars(lines(text))
    IN  [version      |-> unwrap_or(get(env_vars, "VERSION"), "unknown"),
         pkg_release  |-> unwrap_or(get(env_vars, "PKG_RELEASE"), "1"),
         full_version |-> unwrap_or(get(env_vars, "FULL_VERSION"), "unknown-1"),
         package_name |-> unwrap_or(get(env_vars, "PACKAGE_NAME"), "unknown"),
         tag_version  |-> unwrap_or(get(env_vars, "TAG_VERSION"), "unknown"),
         build_job_id |-> unwrap_or(get(env_vars, "BUILD_JOB_ID"), "unknown"),
         build_date   |-> unwrap_or(get(env_vars, "BUILD_DATE"), now),
         arch         |-> unwrap_or(get(env_vars, "ARCH"), "any")]

InitVersion ==
    /\ readable = TRUE
    /\ path = "PKGBUILD"
    /\ disk \in VersionManifests
    /\ content = ""
    /\ info = EmptyInfo
    /\ pc = "start"
    /\ result = Pending
    /\ passes = <<>>
    /\ ioLog = <<>>
    /\ environ \in Environs
    /\ versionFile = NoFile
    /\ generated = Pending
    /\ loaded = Pending
    /\ vpc = "generate"
    /\ SharedIdle
    /\ HelpersIdle
    /\ SequenceIdle
    /\ CollectIdle
    /\ BuilderIdle

notVersionVars ==
    <<parseVars, sharedVars, helperVars, sequenceVars, collectVars, builderVars>>

\* execute_version_command after parser.parse(..)? returned a record:
\* generate writes the file, or write_file fails: before the file is
\* opened, or in fs::write with only the first bytes written
Generate ==
    /\ vpc = "generate"
    /\ pc = "done"
    /\ result.kind = "Ok"
    /\ LET version_info == create_version_info(result.value, environ)
           env_content  == format_as_env_file(version_info)
       IN  \/ /\ versionFile' = File(env_content)
              /\ generated' = Ok(version_info)
              /\ vpc' = "load"
           \/ /\ generated' = Err(file_system("write", "version.env"))
              /\ vpc' = "done"
              /\ \/ UNCHANGED versionFile
                 \/ \E d \in Written(env_content) \ {env_content} :
                       versionFile' = File(d)
    /\ UNCHANGED <<environ, loaded>>
    /\ UNCHANGED notVersionVars

\* load_from_file on the file generate wrote
LoadFromFile ==
    /\ vpc = "load"
    /\ \/ loaded' = Ok(parse_env_content(versionFile.data, environ.now))
       \/ loaded' = Err(file_system("read", "version.env"))
    /\ vpc' = "done"
    /\ UNCHANGED <<environ, versionFile, generated>>
    /\ UNCHANGED notVersionVars

EnvKeys == {"CI_COMMIT_TAG", "CI_JOB_ID"}

EnvValues == {"v1.0.0", "12345"}

\* EnvUtils::set_var, called before generate reads the environment
SetVar(key, value) ==
    /\ vpc = "generate"
    /\ environ' = [environ EXCEPT ![key] = Some(value)]
    /\ UNCHANGED <<versionFile, generated, loaded, vpc>>
    /\ UNCHANGED notVersionVars

\* EnvUtils::remove_var, called before generate reads the environment
RemoveVar(key) ==
    /\ vpc = "generate"
    /\ environ' = [environ EXCEPT ![key] = None]
    /\ UNCHANGED <<versionFile, generated, loaded, vpc>>
    /\ UNCHANGED notVersionVars

NextVersion ==
    \/ Next
    \/ \E key \in EnvKeys, value \in EnvValues : SetVar(key, value)
    \/ \E key \in EnvKeys : RemoveVar(key)
    \/ Generate
    \/ LoadFromFile

SpecVersion == InitVersion /\ [][NextVersion]_vars

----------------------------------------------------------------------------
\* the artifacts collect reports: those of the list it returns
Reported == IF collectResult.kind = "Ok" THEN collectResult.value ELSE <<>>

\* the claim of C21 about one reported artifact
Delivered(a) ==
    LET s == Resolve(a.source)
        d == Resolve(a.destination)
    IN  /\ fsys[d].exists
        /\ fsys[d] = fsys0[s]
        /\ a.operation = "Copied" => fsys[s] = fsys0[s]
        /\ a.operation = "Moved" => ~fsys[s].exists

\* C21: every artifact collect reports has its destination file with the
\* content the source had, for every output directory, the working
\* directory included; the source of a Copied artifact is still there with
\* its content and the source of a Moved one is gone; and when a move is
\* about to remove the source, the destination is completely written.
\* The code breaks this when output_dir is the working directory.
C21_ArtifactsAreDelivered ==
    /\ \A k \in 1..Len(Reported) : Delivered(Reported[k])
    /\ cpc = "remove" => fsys[Dst] = fsys0[Src]

----------------------------------------------------------------------------
\* C22: for every list of collected artifacts, get_collection_summary
\* returns total equal to the length of the list, and the four kinds as well
\* as the two operations each add up to total: every artifact is counted in
\* exactly one kind and one operation.
C22_SummaryCountsAddUp ==
    HasReturned("get_collection_summary") =>
        LET s == ret.value
        IN  /\ s.total = Len(call.artifacts)
            /\ s.packages + s.logs + s.sources + s.others = s.total
            /\ s.copied + s.moved = s.total
            /\ s.copied = Cardinality({k \in 1..Len(call.artifacts) :
                                          call.artifacts[k].operation = "Copied"})
            /\ s.packages = Cardinality({k \in 1..Len(call.artifacts) :
                                          Occurs(".pkg.tar.", call.artifacts[k].source)})

C22_Witness ==
    /\ HasReturned("get_collection_summary")
    /\ ret.value = [total |-> 3, packages |-> 1, logs |-> 1, sources |-> 1, others |-> 0,
                    copied |-> 1, moved |-> 2]
    /\ \E k \in 1..Len(call.artifacts) :
          call.artifacts[k].source = "demo-1.0-1-any.pkg.tar.zst.log"

----------------------------------------------------------------------------
\* C23: for every record parse can return, the VersionInfo that
\* load_from_file reads from the file generate wrote has the version,
\* package_name and arch of the VersionInfo generate returned.
\* The code breaks this for a value that begins or ends with a double quote.
C23_VersionFileRoundTrip ==
    generated.kind = "Ok" /\ loaded.kind = "Ok" =>
        /\ loaded.value.version = generated.value.version
        /\ loaded.value.package_name = generated.value.package_name
        /\ loaded.value.arch = generated.value.arch

----------------------------------------------------------------------------
(* PackageBuilder::install_dependencies with install_package_list and      *)
(* try_fallback_installation (src/rust/src/core/builder.rs).  A command    *)
(* that is run succeeds or fails; each run is recorded in effects.         *)

MaxInstall == 2

InstallArgs == << "-S", "--noconfirm", "--needed", "--asdeps" >>

InstallConfigs ==
    { [NoBuilderConfig EXCEPT !.primary = "paru", !.fallback = f,
                              !.install_args = InstallArgs,
                              !.handle_rust_conflict = h, !.rustup_exists = r] :
        f \in {None, Some("pacman")}, h \in BOOLEAN, r \in BOOLEAN }

InstallRequests ==
    { [EmptyInfo EXCEPT !.name = "demo", !.version = "1.0.0", !.release = "1",
                        !.depends = d, !.make_depends = m] :
        d \in SeqsUpTo({"glibc", "rust"}, MaxInstall), m \in SeqsUpTo({"cargo"}, 1) }

\* Config::get_package_manager_cmd
get_package_manager_cmd(c) == <<c.primary, c.install_args>>

\* BuilderError::dependency
dependency(message, dependencies) ==
    [variant |-> "Dependency", message |-> message, dependencies |-> dependencies]

\* one run of a command by ProcessRunner::run_command_with_env
Run(command, args, env_vars, ok) ==
    [kind |-> "run", command |-> command, args |-> args, env |-> env_vars, ok |-> ok]

InitInstall ==
    /\ bconfig \in InstallConfigs
    /\ request \in InstallRequests
    /\ packages = <<>>
    /\ effects = <<>>
    /\ cwd = {}
    /\ bpc = "install_dependencies"
    /\ bResult = Pending
    /\ ParseIdle
    /\ SharedIdle
    /\ HelpersIdle
    /\ SequenceIdle
    /\ CollectIdle
    /\ VersionIdle

notBuilderVars ==
    <<parseVars, sharedVars, helperVars, sequenceVars, collectVars, versionVars>>

\* install_dependencies up to the call of install_package_list
InstallDependencies ==
    /\ bpc = "install_dependencies"
    /\ LET all_deps      == all_dependencies(request)
           filtered_deps == IF bconfig.handle_rust_conflict
                            THEN handle_rust_conflict(all_deps, bconfig.rustup_exists)
                            ELSE all_deps
       IN  IF all_deps = <<>> \/ filtered_deps = <<>>
           THEN /\ bResult' = Ok(<<>>)
                /\ bpc' = "done"
                /\ UNCHANGED packages
           ELSE /\ packages' = filtered_deps
                /\ bpc' = "primary"
                /\ UNCHANGED bResult
    /\ UNCHANGED <<bconfig, request, effects, cwd>>
    /\ UNCHANGED notBuilderVars

\* an install_package_list that runs the primary manager again when it
\* has failed and no fallback is configured
TryPrimaryAgain ==
    /\ bpc = "primary"
    /\ LET cmd  == get_package_manager_cmd(bconfig)[1]
           args == get_package_manager_cmd(bconfig)[2] \o packages
       IN  \E ok \in BOOLEAN :
             /\ effects' = Append(effects, Run(cmd, args, <<>>, ok))
             /\ IF ok
                THEN bResult' = Ok(<<>>) /\ bpc' = "done"
                ELSE IF bconfig.fallback.some
                THEN bpc' = "fallback" /\ UNCHANGED bResult
                ELSE IF Len(effects) = 0
                THEN bpc' = "primary" /\ UNCHANGED bResult
                ELSE /\ bResult' = Err(dependency(
                             "Failed to install dependencies with " \o cmd, packages))
                     /\ bpc' = "done"
    /\ UNCHANGED <<bconfig, request, packages, cwd>>
    /\ UNCHANGED notBuilderVars

\* install_package_list: the primary package manager is run
TryPrimary ==
    /\ bpc = "primary"
    /\ LET cmd  == get_package_manager_cmd(bconfig)[1]
           args == get_package_manager_cmd(bconfig)[2] \o packages
       IN  \E ok \in BOOLEAN :
             /\ effects' = Append(effects, Run(cmd, args, <<>>, ok))
             /\ IF ok
                THEN bResult' = Ok(<<>>) /\ bpc' = "done"
                ELSE IF bconfig.fallback.some
                THEN bpc' = "fallback" /\ UNCHANGED bResult
                ELSE /\ bResult' = Err(dependency(
                             "Failed to install dependencies with " \o cmd, packages))
                     /\ bpc' = "done"
    /\ UNCHANGED <<bconfig, request, packages, cwd>>
    /\ UNCHANGED notBuilderVars

\* try_fallback_installation: sudo runs the fallback package manager
TryFallback ==
    /\ bpc = "fallback"
    /\ LET args == <<bconfig.fallback.value>> \o bconfig.install_args \o packages
       IN  \E ok \in BOOLEAN :
             /\ effects' = Append(effects, Run("sudo", args, <<>>, ok))
             /\ bResult' = IF ok THEN Ok(<<>>)
                           ELSE Err(dependency(
                                    "All package managers failed to install dependencies",
                                    packages))
    /\ bpc' = "done"
    /\ UNCHANGED <<bconfig, request, packages, cwd>>
    /\ UNCHANGED notBuilderVars

NextInstall ==
    \/ InstallDependencies
    \/ TryPrimary
    \/ TryFallback

SpecInstall == InitInstall /\ [][NextInstall]_vars

----------------------------------------------------------------------------
\* C24: install_package_list runs the primary package manager first and
\* once; the fallback is run (through sudo) only after the primary run
\* failed and only when a fallback is configured, and once at most; the
\* call returns Ok when a run succeeds and no run follows a successful one;
\* otherwise it returns a Dependency error that lists the requested
\* packages, and nothing is run a second time.
C24_PrimaryThenFallbackOnce ==
    LET n       == Len(effects)
        primary == Run(bconfig.primary, bconfig.install_args \o packages, <<>>, FALSE)
        sudo    == Run("sudo",
                       <<bconfig.fallback.value>> \o bconfig.install_args \o packages,
                       <<>>, FALSE)
    IN  /\ n <= 2
        /\ n >= 1 => [effects[1] EXCEPT !.ok = FALSE] = primary
        /\ n = 2 => /\ ~effects[1].ok
                    /\ bconfig.fallback.some
                    /\ [effects[2] EXCEPT !.ok = FALSE] = sudo
        /\ bpc = "done" /\ packages # <<>> =>
              /\ n >= 1
              /\ bResult.kind = "Ok" <=> effects[n].ok
              /\ bResult.kind = "Err" =>
                    /\ bResult.error.variant = "Dependency"
                    /\ bResult.error.dependencies = packages
                    /\ n = (IF bconfig.fallback.some THEN 2 ELSE 1)
        /\ bpc # "done" => bResult = Pending /\ \A k \in 1..n : ~effects[k].ok

C24_Witness ==
    /\ bpc = "done"
    /\ Len(effects) = 2
    /\ effects[2].command = "sudo"
    /\ bResult.kind = "Err"
    /\ packages = <<"glibc", "cargo", "rustup">>

----------------------------------------------------------------------------
(* PackageBuilder::clean, build and find_package_files                     *)
(* (src/rust/src/core/builder.rs), called as execute_build_command         *)
(* (src/rust/src/cli/commands.rs) calls them.  The build command succeeds  *)
(* or fails and leaves files behind in the working directory.              *)

MaxProduced == 2

\* the names a build directory may hold, in the order of Path's Ord
BuildNameOrder ==
    << "PKGBUILD", "demo-1.0-1-any.pkg.tar.zst", "demo-1.0-1-any.pkg.tar.zst.sig",
       "demo-1.0-1-x86_64-build.log", "demo-debug-1.0-1-any.pkg.tar.zst",
       "pkg", "src" >>

\* the directories makepkg works in
BuildDirectories == {"src", "pkg"}

BuildProducts ==
    { BuildNameOrder[k] : k \in 2..Len(BuildNameOrder) } \ BuildDirectories

\* what an earlier build may have left in a build directory
Leftovers ==
    { "demo-1.0-1-any.pkg.tar.zst", "demo-1.0-1-x86_64-build.log", "src", "pkg" }

\* the contents a build directory may have before the build
BuildDirs ==
    { {"PKGBUILD"} \cup left : left \in { {}, {"demo-1.0-1-x86_64-build.log"}, Leftovers } }

BuildConfigs ==
    { [NoBuilderConfig EXCEPT !.build_args = <<"-B", "--noconfirm">>, !.sign = s,
                              !.use_ccache = c, !.ccache_dir = "/home/builder/.ccache",
                              !.clean = cl] :
        s \in BOOLEAN, c \in BOOLEAN, cl \in BOOLEAN }

\* Config::get_build_cmd
get_build_cmd(c) ==
    <<"paru", c.build_args \o <<"./">> \o (IF c.sign THEN <<"--sign">> ELSE <<>>)>>

\* BuilderError::build
build(message) == [variant |-> "Build", message |-> message]

\* the Display of BuilderError::Process: "Process error: {command} failed"
display_process(command) == "Process error: " \o command \o " failed"

\* glob::glob("*.pkg.tar.*") in the working directory, in sorted order,
\* without the Err entries that find_package_files only warns about: the
\* directory is read as a whole, and when reading it fails (listed is
\* FALSE) the only entry is an Err
glob_packages(dir, listed) ==
    IF ~listed THEN <<>>
    ELSE SelectSeq(BuildNameOrder, LAMBDA n : n \in dir /\ Occurs(".pkg.tar.", n))

\* Vec<PathBuf>::sort on file names
sort(q) ==
    SelectSeq(BuildNameOrder, LAMBDA n : \E k \in 1..Len(q) : q[k] = n)

find_package_files_in(dir, listed) == sort(glob_packages(dir, listed))

InitBuild ==
    /\ bconfig \in BuildConfigs
    /\ request = [EmptyInfo EXCEPT !.name = "demo", !.version = "1.0", !.release = "1"]
    /\ packages = <<>>
    /\ effects = <<>>
    /\ cwd \in BuildDirs
    /\ bpc = IF bconfig.clean THEN "clean" ELSE "build"
    /\ bResult = Pending
    /\ ParseIdle
    /\ SharedIdle
    /\ HelpersIdle
    /\ SequenceIdle
    /\ CollectIdle
    /\ VersionIdle

\* FileSystemUtils::set_current_dir before the builder is called: the
\* working directory becomes another build directory, or stays when the
\* call fails
SetCurrentDir ==
    /\ bpc \in {"clean", "build"}
    /\ effects = <<>>
    /\ cwd' \in BuildDirs
    /\ UNCHANGED <<bconfig, request, packages, effects, bpc, bResult>>
    /\ UNCHANGED notBuilderVars

\* glob::glob("*.pkg.tar.*") in the working directory, as a set
PackageFilesIn(dir) == { n \in dir : Occurs(".pkg.tar.", n) }

\* clean: remove_file on each *.pkg.tar.* file and remove_dir_all on src and
\* pkg; a removal that fails is only logged, and clean returns Ok(())
Clean ==
    /\ bpc = "clean"
    /\ \E removed \in SUBSET (PackageFilesIn(cwd) \cup (BuildDirectories \cap cwd)) :
          cwd' = cwd \ removed
    /\ bpc' = "build"
    /\ UNCHANGED <<bconfig, request, packages, effects, bResult>>
    /\ UNCHANGED notBuilderVars

\* build up to the ? after run_command_with_env
RunBuild ==
    /\ bpc = "build"
    /\ LET cmd      == get_build_cmd(bconfig)[1]
           args     == get_build_cmd(bconfig)[2]
           env_vars == IF bconfig.use_ccache
                       THEN << <<"CCACHE_DIR", bconfig.ccache_dir>> >>
                       ELSE <<>>
       IN  \E ok \in BOOLEAN, produced \in SUBSET BuildProducts :
             /\ Cardinality(produced) <= MaxProduced
             /\ effects' = Append(effects, Run(cmd, args, env_vars, ok))
             /\ cwd' = cwd \cup produced
             /\ IF ok
                THEN bpc' = "find" /\ UNCHANGED bResult
                ELSE /\ bResult' = Err(build(
                             "Package build failed: "
                             \o display_process(cmd_str([command |-> cmd, args |-> args]))))
                     /\ bpc' = "done"
    /\ UNCHANGED <<bconfig, request, packages>>
    /\ UNCHANGED notBuilderVars

\* the message of build for an empty list; its bullets (U+2022) are
\* written as the escape \u{2022}
NoPackagesGenerated ==
    "No package files (*.pkg.tar.*) were generated by the build process.\n\n"
    \o "This usually means:\n"
    \o "\\u{2022} The build was skipped (e.g. due to existing src/ or pkg/ directories)\n"
    \o "\\u{2022} The PKGBUILD has a conditional 'exit 0'\n"
    \o "\\u{2022} The build failed silently (check logs above)\n"
    \o "\\u{2022} Dynamic pkgver/pkgrel caused unexpected naming\n\n"
    \o "Please review the build output carefully for warnings or skipped steps."

\* a build that hands on whatever the search found, an empty list too
FindPackageFilesUnchecked ==
    /\ bpc = "find"
    /\ effects' = Append(effects, [kind |-> "glob", pattern |-> "*.pkg.tar.*"])
    /\ \E listed \in BOOLEAN : packages' = find_package_files_in(cwd, listed)
    /\ bpc' = "list"
    /\ UNCHANGED <<bconfig, request, cwd, bResult>>
    /\ UNCHANGED notBuilderVars

\* build: find_package_files and the check that it found something
FindPackageFiles ==
    /\ bpc = "find"
    /\ effects' = Append(effects, [kind |-> "glob", pattern |-> "*.pkg.tar.*"])
    /\ \E listed \in BOOLEAN : packages' = find_package_files_in(cwd, listed)
    /\ IF packages' = <<>>
       THEN bResult' = Err(build(NoPackagesGenerated)) /\ bpc' = "done"
       ELSE bpc' = "list" /\ UNCHANGED bResult
    /\ UNCHANGED <<bconfig, request, cwd>>
    /\ UNCHANGED notBuilderVars

\* build: list_package_files runs ls, whose failure is only logged
ListPackageFiles ==
    /\ bpc = "list"
    /\ \E ok \in BOOLEAN :
          effects' = Append(effects, Run("ls", <<"-la">> \o packages, <<>>, ok))
    /\ bResult' = Ok(packages)
    /\ bpc' = "done"
    /\ UNCHANGED <<bconfig, request, packages, cwd>>
    /\ UNCHANGED notBuilderVars

NextBuild ==
    \/ SetCurrentDir
    \/ Clean
    \/ RunBuild
    \/ FindPackageFiles
    \/ ListPackageFiles

SpecBuild == InitBuild /\ [][NextBuild]_vars

----------------------------------------------------------------------------
IsPackageFile(n) == Occurs(".pkg.tar.", n)

Position(n) == CHOOSE k \in 1..Len(BuildNameOrder) : BuildNameOrder[k] = n

\* C25: build returns Ok only with a list of package files that is not
\* empty and is sorted; when the build command fails it returns a Build
\* error and has not searched for package files; when the command succeeds
\* and the working directory holds no *.pkg.tar.* file it returns a Build
\* error.
C25_BuildReturnsPackagesOrFails ==
    bpc = "done" =>
        /\ bResult.kind = "Ok" =>
              LET list == bResult.value
              IN  /\ list # <<>>
                  /\ \A k \in 1..Len(list) : list[k] \in cwd /\ IsPackageFile(list[k])
                  /\ \A j, k \in 1..Len(list) :
                        j < k => Position(list[j]) < Position(list[k])
                  /\ \A n \in cwd : IsPackageFile(n) => \E k \in 1..Len(list) : list[k] = n
        /\ ~effects[1].ok =>
              /\ bResult.kind = "Err"
              /\ bResult.error.variant = "Build"
              /\ \A k \in 1..Len(effects) : effects[k].kind # "glob"
        /\ effects[1].ok /\ ~(\E n \in cwd : IsPackageFile(n)) =>
              /\ bResult.kind = "Err"
              /\ bResult.error = build(NoPackagesGenerated)

C25_Witness ==
    /\ bpc = "done"
    /\ bResult = Ok(<<"demo-1.0-1-any.pkg.tar.zst", "demo-debug-1.0-1-any.pkg.tar.zst">>)
    /\ "demo-1.0-1-x86_64-build.log" \in cwd

----------------------------------------------------------------------------
\* collect has left its loop and returned
LoopFinished == cpc = "done" /\ patIdx > Len(config.patterns)

NoPackagesError == Err(artifact(NoPackagesMessage, config.output_dir))

CollectedPackage ==
    \E k \in 1..Len(collected) :
        LET name == file_name(collected[k].source)
        IN  name.some /\ Occurs(".pkg.tar.", name.value)

\* C26: collect returns the "No package files (*.pkg.tar.*) were found to
\* collect" error if and only if none of the artifacts it collected has a
\* file name containing .pkg.tar.; when it returns Ok, at least one
\* collected artifact has such a name.
\* The code breaks the first part: it looks at the pattern, not at the files.
C26_NoPackagesErrorIffNoPackage ==
    LoopFinished =>
        /\ collectResult = NoPackagesError <=> ~CollectedPackage
        /\ collectResult.kind = "Ok" => CollectedPackage

----------------------------------------------------------------------------
(* One call of parse on a manifest that declares one mandatory key up to   *)
(* MaxRedeclared times, in any mix of the three styles, and the other two  *)
(* keys once each.                                                         *)

MaxRedeclared == 2

\* the declarations of key: unquoted, double-quoted (one with a comment),
\* single-quoted (one between a vertical tab and a form feed), and two
\* quoted ones whose value is empty once trimmed
Redeclarations(key) ==
    { key \o "=1.0\n",
      key \o "=\"2.0\"\n",
      key \o "=\"2.1\"  # new\n",
      key \o "='3.0'\n",
      key \o "=" \o VerticalTab \o "'4.0'\f\n",
      key \o "=\" \"\n",
      key \o "=''\n" }

OtherDecls(key) ==
    Concat([k \in 1..3 |->
        LET other == <<"pkgname", "pkgver", "pkgrel">>[k]
        IN  IF other = key THEN "" ELSE other \o "=7\n"])

RedeclaredManifests ==
    UNION { { Concat(q) \o OtherDecls(key) :
                q \in SeqsUpTo(Redeclarations(key), MaxRedeclared) } :
            key \in MandatoryKeys }

InitRedeclared ==
    /\ readable = TRUE
    /\ path = "PKGBUILD"
    /\ disk \in RedeclaredManifests
    /\ content = ""
    /\ info = EmptyInfo
    /\ pc = "start"
    /\ result = Pending
    /\ passes = <<>>
    /\ ioLog = <<>>
    /\ SharedIdle
    /\ HelpersIdle
    /\ SequenceIdle
    /\ WorkflowIdle

SpecRedeclared == InitRedeclared /\ [][Next]_vars

\* the style a declaration body is written in
Style(b) ==
    IF IsQuotedWith(b, "\"") THEN "double"
    ELSE IF IsQuotedWith(b, "'") THEN "single"
    ELSE IF b # "" /\ ~Occurs("\"", b) /\ ~Occurs("'", b) THEN "unquoted"
    ELSE "none"

\* the body of the n-th declaration line of key
Declared(s, key, n) == DeclBody(DeclLines(s, key)[n], key)

\* key is declared on two lines, the later one quoted with a non-empty
\* value, the earlier one in a style whose rule runs after the later one's
LaterRuleFirst(s, key) ==
    /\ Len(DeclLines(s, key)) = 2
    /\ DeclaredValue(Declared(s, key, 2)) # ""
    /\ \/ /\ Style(Declared(s, key, 1)) = "unquoted"
          /\ Style(Declared(s, key, 2)) \in {"double", "single"}
       \/ /\ Style(Declared(s, key, 1)) = "single"
          /\ Style(Declared(s, key, 2)) = "double"

\* C27: pass order dominates text order in the scalar extractor: when a
\* mandatory key is declared unquoted on an earlier line and double-quoted
\* or single-quoted with a non-empty value on a later line, the field holds
\* the later, quoted value once the three scalar rules have run, and to the
\* end of the call; the same holds for a double-quoted declaration after a
\* single-quoted one.
C27_PassOrderDominatesTextOrder ==
    readable /\ pc \in {"array", "branch", "validate", "done"} =>
        \A key \in MandatoryKeys :
            LaterRuleFirst(content, key) =>
                /\ Field(info, key) = DeclaredValue(Declared(content, key, 2))
                /\ pc = "done" /\ result.kind = "Ok" =>
                      Field(result.value, key) = DeclaredValue(Declared(content, key, 2))

\* pkgver=1.0 on the first line, pkgver="2.0" on the second: parse returned
\* version 2.0
C27_Witness ==
    /\ pc = "done"
    /\ content = "pkgver=1.0\npkgver=\"2.0\"\npkgname=7\npkgrel=7\n"
    /\ result.kind = "Ok"
    /\ result.value.version = "2.0"

\* pkgrel='3.0' on the first line, pkgrel="2.1" with a comment on the
\* second: the scalar rules have run and release is 2.1
C27_WitnessSingleThenDouble ==
    /\ pc = "array"
    /\ content = "pkgrel='3.0'\npkgrel=\"2.1\"  # new\npkgname=7\npkgver=7\n"
    /\ info.release = "2.1"
====
